---------------------------- MODULE Spec2Model ----------------------------
(***************************************************************************)
(* A model of the SMIV back end of nnet_lib (src/nnet_lib/src/arch/smiv.c):*)
(* the DMA requirement pass, the convolution work divider, the convolution *)
(* runner with its reduction rounds, the inner-product layer and the       *)
(* forward pass that drives them.                                          *)
(*                                                                         *)
(* Arrays keep the source's 0-based indices: layers, plans and buffers are *)
(* functions over 0..n-1.                                                  *)
(***************************************************************************)
EXTENDS Integers, Sequences, FiniteSets, Bags, TLC

VARIABLES
    layers,              \* network.layers: [0..depth-1 -> layer_t]
    depth,               \* network.depth
    pc,                  \* position of the control flow
    err,                 \* which assert(false) ended the run ("none": none did)
    layer_num,           \* loop counter of set_dma_requirements
    conv_cfgs,           \* the conv_cfg_t that convolution_divide_work returned
    l,                   \* nnet_fwd: the layer being run
    result_loc,          \* nnet_fwd: the host buffer holding the live activations
    current_result_loc,  \* inner_product_layer: its static result location
    dev,                 \* contents of umem, spad0, spad1
    fill,                \* what a never-written location reads as
    host,                \* contents of the host buffers activations.d, result.d
    mapped,              \* the host array mapped under each logical name
    conv,                \* locals of convolution_layer and convolution_runner
    log                  \* maps, invocations and transfers, in program order

fwdVars == <<l, result_loc, current_result_loc, dev, fill, host, mapped, conv, log>>

vars == <<layers, depth, pc, err, layer_num, conv_cfgs,
          l, result_loc, current_result_loc, dev, fill, host, mapped, conv, log>>

--------------------------------------------------------------------------
(* Program constants. Every byte count of the model stays below 2^31, so   *)
(* the source's 32-bit unsigned arithmetic on them is exact.               *)

SPAD_SIZE == 131072

UMEM_SIZE == 3 * 1048576

SIZEOF_FLOAT == 4

DATA_ALIGNMENT == 8

(* min() of two unsigned values. An unsigned value that a subtraction took  *)
(* below zero has wrapped to 2^32 - k, above every count of the model: it   *)
(* is kept here as the negative number -k and compares as the larger one.   *)
Min(a, b) == IF a < 0 THEN b ELSE IF b < 0 THEN a ELSE IF a < b THEN a ELSE b

(* ceil((float)a / b) of two small non-negative integers, b > 0 *)
Ceil(a, b) == (a + b - 1) \div b

(* calc_padding(cols, DATA_ALIGNMENT): elements added to reach a multiple *)
CalcPadding(n, align) == IF n % align = 0 THEN 0 ELSE align - (n % align)

--------------------------------------------------------------------------
(* Bounds of the model *)

MaxDepth == 3

ShortDepth == 2

MaxChannels == 7

--------------------------------------------------------------------------
(* Layer descriptors *)

LayerTypes == {"CONV", "POOLING", "FC", "SOFTMAX"}

Activations == {"NONE", "RELU", "SIGMOID"}

Preprocessing == {"FLATTEN", "UNFLATTEN"}

PoolTypes == {"MAX", "AVG"}

Dims(r, c, h, p) == [rows |-> r, cols |-> c, height |-> h, align_pad |-> p]

NoDims == Dims(0, 0, 0, 0)

MkLayer(t, a, ip, pl, cp, i, w, o) ==
    [type |-> t, activation |-> a, input_preprocessing |-> ip, pool |-> pl,
     c_padding |-> cp, inputs |-> i, weights |-> w, outputs |-> o,
     needs_input_dma_load |-> FALSE, needs_output_dma_store |-> FALSE,
     result_in_temp |-> FALSE]

(* INPUT_BYTES(layers, lnum) / NUM_TEST_CASES: the bytes of one image's input *)
InputBytesPerImage(ly) ==
    ly.inputs.rows * (ly.inputs.cols + ly.inputs.align_pad) * ly.inputs.height
        * SIZEOF_FLOAT

--------------------------------------------------------------------------
(* convolution_divide_work *)

NoPlan(e) == [err |-> e, num_iterations |-> 0, iteration |-> <<>>]

(* The unreduced output of one output channel (smiv.c:178-181) *)
TotalOutputBytes(ly) ==
    ly.outputs.rows * (ly.outputs.cols + ly.outputs.align_pad)
        * ly.inputs.height * SIZEOF_FLOAT

(* smiv.c:201-204 *)
OutputChannelSize(ly) ==
    ly.outputs.rows * (ly.outputs.cols + ly.outputs.align_pad) * SIZEOF_FLOAT

(* smiv.c:207 *)
MaxChannelsPerIter(ly) == SPAD_SIZE \div OutputChannelSize(ly)

(* total_channels at the top of loop round i (smiv.c:214, 222): unsigned *)
RECURSIVE TotalChannelsAt(_, _, _)
TotalChannelsAt(input_channels, max_channels_per_iter, i) ==
    IF i = 0 THEN input_channels
    ELSE TotalChannelsAt(input_channels, max_channels_per_iter, i - 1)
             - max_channels_per_iter

(* IterationDims with the min() of smiv.c:219 dropped *)
IterationDimsNoMin(ly, max_channels_per_iter, i) ==
    Dims(ly.inputs.rows, ly.inputs.cols, max_channels_per_iter,
         CalcPadding(ly.inputs.cols, DATA_ALIGNMENT))

(* conv_cfgs.iteration[i] of the channel-wise division (smiv.c:216-221) *)
IterationDims(ly, max_channels_per_iter, i) ==
    Dims(ly.inputs.rows, ly.inputs.cols,
         Min(TotalChannelsAt(ly.inputs.height, max_channels_per_iter, i),
             max_channels_per_iter),
         CalcPadding(ly.inputs.cols, DATA_ALIGNMENT))

(* SinglePlan taking the channel count from the outputs *)
SinglePlanOutputsHeight(ly) ==
    [err |-> "none", num_iterations |-> 1,
     iteration |-> [i \in {0} |->
         Dims(ly.inputs.rows, ly.inputs.cols, ly.outputs.height,
              CalcPadding(ly.inputs.cols, DATA_ALIGNMENT))]]

(* The single-iteration plan (smiv.c:187-197) *)
SinglePlan(ly) ==
    [err |-> "none", num_iterations |-> 1,
     iteration |-> [i \in {0} |->
         Dims(ly.inputs.rows, ly.inputs.cols, ly.inputs.height,
              CalcPadding(ly.inputs.cols, DATA_ALIGNMENT))]]

(* The channel-wise plan (smiv.c:208-225) *)
ChannelPlan(ly) ==
    LET m == MaxChannelsPerIter(ly)
        n == Ceil(ly.inputs.height, m)
    IN  [err |-> "none", num_iterations |-> n,
         iteration |-> [i \in 0..(n - 1) |-> IterationDims(ly, m, i)]]

(* ConvolutionDivideWork testing the UMEM capacity after the tiling decisions *)
ConvolutionDivideWorkUmemLast(ls, lnum) ==
    LET ly == ls[lnum]
    IN  IF TotalOutputBytes(ly) <= SPAD_SIZE
        THEN (IF InputBytesPerImage(ly) > UMEM_SIZE THEN NoPlan("umem")
              ELSE SinglePlan(ly))
        ELSE IF MaxChannelsPerIter(ly) >= 2
        THEN (IF InputBytesPerImage(ly) > UMEM_SIZE THEN NoPlan("umem")
              ELSE ChannelPlan(ly))
        ELSE NoPlan("tiled")

(* ConvolutionDivideWork accepting one channel per iteration *)
ConvolutionDivideWorkOneChannel(ls, lnum) ==
    LET ly == ls[lnum]
    IN  IF InputBytesPerImage(ly) > UMEM_SIZE THEN NoPlan("umem")
        ELSE IF TotalOutputBytes(ly) <= SPAD_SIZE THEN SinglePlan(ly)
        ELSE IF MaxChannelsPerIter(ly) >= 1 THEN ChannelPlan(ly)
        ELSE NoPlan("tiled")

(* smiv.c:174-233; an assert(false) returns no plan and names the failure *)
ConvolutionDivideWork(ls, lnum) ==
    LET ly == ls[lnum]
    IN  IF InputBytesPerImage(ly) > UMEM_SIZE THEN NoPlan("umem")
        ELSE IF TotalOutputBytes(ly) <= SPAD_SIZE THEN SinglePlan(ly)
        ELSE IF MaxChannelsPerIter(ly) >= 2 THEN ChannelPlan(ly)
        ELSE NoPlan("tiled")

--------------------------------------------------------------------------
(* set_dma_requirements *)

(* NeedsOutputDmaStore without the test of the input preprocessing *)
NeedsOutputDmaStoreNoFlatten(ls, d, n) ==
    IF n = d - 1 THEN TRUE
    ELSE IF ls[n].activation = "SIGMOID" THEN TRUE
    ELSE IF ls[n].type = "POOLING" THEN TRUE
    ELSE IF ls[n].type = "CONV" THEN TRUE
    ELSE IF ls[n + 1].type = "POOLING" THEN TRUE
    ELSE ls[n + 1].type = "SOFTMAX"

(* The condition of smiv.c:409-416, evaluated left to right *)
NeedsOutputDmaStore(ls, d, n) ==
    IF n = d - 1 THEN TRUE
    ELSE IF ls[n].activation = "SIGMOID" THEN TRUE
    ELSE IF ls[n].type = "POOLING" THEN TRUE
    ELSE IF ls[n].type = "CONV" THEN TRUE
    ELSE IF ls[n].input_preprocessing = "FLATTEN" THEN TRUE
    ELSE IF ls[n + 1].type = "POOLING" THEN TRUE
    ELSE ls[n + 1].type = "SOFTMAX"

(* DmaFlagsOfLayer taking the input flag from the layer's own output flag *)
DmaFlagsOfLayerOwnStore(ls, d, n) ==
    IF n = 0
    THEN [ls[n] EXCEPT !.needs_input_dma_load = FALSE,
                       !.needs_output_dma_store = TRUE]
    ELSE [ls[n] EXCEPT !.needs_output_dma_store = NeedsOutputDmaStore(ls, d, n),
                       !.needs_input_dma_load = NeedsOutputDmaStore(ls, d, n)]

(* The flags the loop body gives layer n (smiv.c:403-425) *)
DmaFlagsOfLayer(ls, d, n) ==
    IF n = 0
    THEN [ls[n] EXCEPT !.needs_input_dma_load = FALSE,
                       !.needs_output_dma_store = TRUE]
    ELSE [ls[n] EXCEPT !.needs_output_dma_store = NeedsOutputDmaStore(ls, d, n),
                       !.needs_input_dma_load = ls[n - 1].needs_output_dma_store]

(* One round of the loop of smiv.c:401-426 *)
SetDmaLayer ==
    /\ pc = "set_dma"
    /\ layer_num < depth
    /\ layers' = [layers EXCEPT ![layer_num] = DmaFlagsOfLayer(layers, depth, layer_num)]
    /\ layer_num' = layer_num + 1
    /\ UNCHANGED <<depth, pc, err, conv_cfgs, fwdVars>>

(* The loop is over; the second loop only prints. Back in nnet_fwd:469 *)
SetDmaReturn ==
    /\ pc = "set_dma"
    /\ layer_num >= depth
    /\ pc' = "map_activations"
    /\ UNCHANGED <<layers, depth, err, layer_num, conv_cfgs, fwdVars>>

--------------------------------------------------------------------------
(* Data. One value stands for one 2-D slice (one channel of one image) or, *)
(* in an inner-product layer, for one whole operand. A value is a bag of   *)
(* atoms, the terms of a sum: the reduction adds slices element-wise, so   *)
(* two reductions agree on every input exactly when their bags are equal.  *)
(* An atom is <<kind, layer, image, kernel, channel>>.                     *)

NUM_TEST_CASES == 2

One(atom) == SetToBag({atom})

JunkBag == One(<<"junk", 0, 0, 0, 0>>)

(* What memory the program never wrote can hold: zeroes, or anything else *)
Uninitialized == {EmptyBag, JunkBag}

(* Channel chan of image img of the tensor generation gen in a host buffer *)
ActAtom(gen, img, chan) == <<"act", gen, img, 0, chan>>

(* Channel chan of kernel kern of the weights of layer lnum *)
WgtAtom(lnum, kern, chan) == <<"wgt", lnum, 0, kern, chan>>

(* The 2-D convolution of ActAtom(lnum, img, chan) with WgtAtom(lnum, kern, chan) *)
ConvAtom(lnum, img, kern, chan) == <<"conv", lnum, img, kern, chan>>

(* The operands and the result of the inner product of layer lnum *)
FcActAtom(gen) == <<"fcact", gen, 0, 0, 0>>

FcWgtAtom(lnum) == <<"fcwgt", lnum, 0, 0, 0>>

FcOutAtom(lnum) == <<"fcout", lnum, 0, 0, 0>>

IsOne(b) == Cardinality(DOMAIN b) = 1 /\ \A x \in DOMAIN b : b[x] = 1

TheAtom(b) == CHOOSE x \in DOMAIN b : TRUE

(* A buffer is a function from slot numbers to values; a slot nobody wrote *)
(* reads as fill, a slot past the end of the buffer (slot >= cap) as oob.  *)
ReadSlot(buf, j, cap, oob) ==
    IF j >= cap THEN oob ELSE IF j \in DOMAIN buf THEN buf[j] ELSE fill

Read(buf, j) == IF j \in DOMAIN buf THEN buf[j] ELSE fill

(* buf with the n values vals[0..n-1] written from slot base on *)
WriteSlots(buf, base, n, vals) ==
    [j \in (DOMAIN buf) \cup (base..(base + n - 1)) |->
        IF j >= base /\ j < base + n THEN vals[j - base] ELSE buf[j]]

(* convolution3d_smiv: slot j of the result is the 2-D convolution of slot *)
(* j of the activations with slot j of the weights, for each of the        *)
(* partial layer's channels; nothing is summed.                            *)
ConvOf(a, w, lnum) ==
    IF a = EmptyBag \/ w = EmptyBag THEN EmptyBag
    ELSE IF IsOne(a) /\ IsOne(w)
            /\ TheAtom(a)[1] = "act" /\ TheAtom(w)[1] = "wgt"
            /\ TheAtom(a)[2] = lnum /\ TheAtom(w)[2] = lnum
            /\ TheAtom(a)[5] = TheAtom(w)[5]
         THEN One(ConvAtom(lnum, TheAtom(a)[3], TheAtom(w)[4], TheAtom(a)[5]))
         ELSE JunkBag

Convolution3dSmiv(local_activations, local_weights, partial_layer, lnum) ==
    [j \in 0..(partial_layer.inputs.height - 1) |->
        ConvOf(Read(local_activations, j), Read(local_weights, j), lnum)]

(* reduction_smiv: the element-wise sum of the first n channels *)
RECURSIVE ReductionSmiv(_, _, _, _)
ReductionSmiv(unreduced, n, cap, oob) ==
    IF n = 0 THEN EmptyBag
    ELSE ReductionSmiv(unreduced, n - 1, cap, oob)
             (+) ReadSlot(unreduced, n - 1, cap, oob)

(* matrix_multiply_with_bias_smiv on the operands of layer lnum: the input  *)
(* is the tensor a host buffer held for this layer, or the result the      *)
(* previous layer left on the accelerator.                                 *)
MatrixMultiplyWithBiasSmiv(a, w, lnum) ==
    IF w = One(FcWgtAtom(lnum))
       /\ a \in {One(FcActAtom(lnum)), One(FcOutAtom(lnum - 1))}
    THEN One(FcOutAtom(lnum))
    ELSE JunkBag

(* A host buffer: the tensor generation it holds (generation g is the     *)
(* input of layer g; -1: none), whether it is the zero-padded copy, and    *)
(* the 2-D slices written into it since.                                   *)
HostBuf(g, padded, sl) == [gen |-> g, pad |-> padded, slices |-> sl]

(* OtherHost staying on the same buffer *)
OtherHostSame(b) == b

(* The other of the two host buffers of nnet_fwd (smiv.c:480-486) *)
OtherHost(b) == IF b = "result" THEN "activations" ELSE "result"

NoLayer == MkLayer("CONV", "NONE", "UNFLATTEN", "MAX", 0, NoDims, NoDims, NoDims)

NoConv ==
    [host_activations |-> "none", host_result |-> "none", ret |-> "none",
     img |-> 0, kern |-> 0, iter |-> 0, start_chan |-> 0, result_loc |-> 0,
     temp_result |-> <<>>, partial_layer |-> NoLayer]

NoMapping == [array |-> "none", off |-> 0]

(* The forward-pass state before nnet_fwd has run *)
InitIdle ==
    /\ l = 0
    /\ result_loc = "none"
    /\ current_result_loc = "NULL"
    /\ dev = [umem |-> <<>>, spad0 |-> <<>>, spad1 |-> <<>>]
    /\ fill = EmptyBag
    /\ host = [activations |-> HostBuf(0, FALSE, <<>>),
               result |-> HostBuf(-1, FALSE, <<>>)]
    /\ mapped = [host_activations |-> NoMapping, host_weights |-> NoMapping,
                 host_result |-> NoMapping]
    /\ conv = NoConv
    /\ log = <<>>

--------------------------------------------------------------------------
(* The log: what the accelerator interface saw, in program order *)

EvCall(fn, lnum, acts, res) ==
    [op |-> "call", fn |-> fn, layer |-> lnum, activations |-> acts, result |-> res]

EvReturn(fn, lnum, ret) == [op |-> "return", fn |-> fn, layer |-> lnum, ret |-> ret]

EvMalloc(b) == [op |-> "malloc", buf |-> b]

EvFree(b) == [op |-> "free", buf |-> b]

EvMap(name, arr, off, lnum) ==
    [op |-> "map", name |-> name, array |-> arr, off |-> off, layer |-> lnum]

EvDmaLoad(dst, arr, what, lnum) ==
    [op |-> "dmaLoad", dst |-> dst, array |-> arr, what |-> what, layer |-> lnum]

EvDmaStore(arr, src, what, lnum) ==
    [op |-> "dmaStore", array |-> arr, src |-> src, what |-> what, layer |-> lnum]

EvHost(fn, lnum) == [op |-> "host", fn |-> fn, layer |-> lnum]

--------------------------------------------------------------------------
(* inner_product_layer *)

(* NextResultLoc leaving spad1 in place *)
NextResultLocStuck(cur) ==
    IF cur = "NULL" THEN "spad1"
    ELSE IF cur = "spad0" THEN "spad1"
    ELSE cur

(* The if-chain on the static current_result_loc (smiv.c:86-93) *)
NextResultLoc(cur) ==
    IF cur = "NULL" THEN "spad1"
    ELSE IF cur = "spad0" THEN "spad1"
    ELSE IF cur = "spad1" THEN "spad0"
    ELSE cur

(* The body of inner_product_layer_hw, given whether it loads the           *)
(* activations and whether it stores the result: the buffers and the host  *)
(* memory it leaves, and the transfers it made.                            *)
InnerProductHw(load_activations, store_result, host_activations, local_activations, local_weights, lnum, host_result, local_result) ==
    LET d1 == [dev EXCEPT ![local_weights] =
                   WriteSlots(@, 0, 1, [j \in {0} |-> One(FcWgtAtom(lnum))])]
        d2 == IF load_activations
              THEN [d1 EXCEPT ![local_activations] =
                     WriteSlots(@, 0, 1,
                         [j \in {0} |-> One(FcActAtom(host[host_activations].gen))])]
              ELSE d1
        out == MatrixMultiplyWithBiasSmiv(Read(d2[local_activations], 0),
                                          Read(d2[local_weights], 0), lnum)
        d3 == [d2 EXCEPT ![local_result] = WriteSlots(@, 0, 1, [j \in {0} |-> out])]
    IN  [dev |-> d3,
         host |-> IF store_result
                  THEN [host EXCEPT ![host_result] = HostBuf(lnum + 1, FALSE, (0 :> out))]
                  ELSE host,
         log |-> <<EvDmaLoad(local_weights, "weights", "weights", lnum)>>
                 \o (IF load_activations
                     THEN <<EvDmaLoad(local_activations, host_activations,
                                      "activations", lnum)>>
                     ELSE <<>>)
                 \o (IF store_result
                     THEN <<EvDmaStore(host_result, local_result, "result", lnum)>>
                     ELSE <<>>)]

(* InnerProductLayerHw loading the activations whatever the flag says *)
InnerProductLayerHwAlwaysLoad(host_activations, local_activations, local_weights, ls, lnum, host_result, local_result) ==
    InnerProductHw(TRUE, ls[lnum].needs_output_dma_store,
                   host_activations, local_activations, local_weights, lnum,
                   host_result, local_result)

(* inner_product_layer_hw (smiv.c:54-79) *)
InnerProductLayerHw(host_activations, local_activations, local_weights, ls, lnum, host_result, local_result) ==
    InnerProductHw(ls[lnum].needs_input_dma_load, ls[lnum].needs_output_dma_store,
                   host_activations, local_activations, local_weights, lnum,
                   host_result, local_result)

EvInvokeInnerProduct(lnum, host_activations, local_activations, local_weights, host_result, local_result) ==
    [op |-> "invoke", kernel |-> "inner_product_layer_hw", layer |-> lnum,
     host_activations |-> host_activations, local_activations |-> local_activations,
     local_weights |-> local_weights, host_result |-> host_result,
     local_result |-> local_result]

(* run_layer on an FC layer: inner_product_layer (smiv.c:81-115), called   *)
(* from the loop of nnet_fwd (smiv.c:477-487).                             *)
InnerProductLayer ==
    /\ pc = "loop"
    /\ l < depth
    /\ layers[l].type = "FC"
    /\ LET host_activations == result_loc
           host_result == OtherHost(result_loc)
           crl == NextResultLoc(current_result_loc)
           local_result == IF crl = "spad0" THEN "spad0" ELSE "spad1"
           local_activations == IF crl = "spad0" THEN "spad1" ELSE "spad0"
           hw == InnerProductLayerHw(host_activations, local_activations, "umem",
                                     layers, l, host_result, local_result)
       IN  /\ current_result_loc' = crl
           /\ mapped' = [mapped EXCEPT
                  !.host_activations = [array |-> host_activations, off |-> 0],
                  !.host_weights = [array |-> "weights", off |-> l],
                  !.host_result = [array |-> host_result, off |-> 0]]
           /\ dev' = hw.dev
           /\ host' = hw.host
           /\ log' = log
                  \o <<EvCall("inner_product_layer", l, host_activations, host_result),
                       EvMap("host_activations", host_activations, 0, l),
                       EvMap("host_weights", "weights", l, l),
                       EvMap("host_result", host_result, 0, l),
                       EvInvokeInnerProduct(l, host_activations, local_activations,
                                            "umem", host_result, local_result)>>
                  \o hw.log
                  \o <<EvReturn("inner_product_layer", l, host_result)>>
           /\ result_loc' = host_result
    /\ l' = l + 1
    /\ UNCHANGED <<layers, depth, pc, err, layer_num, conv_cfgs, fill, conv>>

--------------------------------------------------------------------------
(* pooling_layer *)

(* PoolingLayer running the software pooling for every pooling kind *)
PoolingLayerAnyKind ==
    /\ pc = "loop"
    /\ l < depth
    /\ layers[l].type = "POOLING"
    /\ host' = [host EXCEPT ![OtherHost(result_loc)] = HostBuf(l + 1, FALSE, <<>>)]
    /\ log' = log \o <<EvCall("pooling_layer", l, result_loc, OtherHost(result_loc)),
                       EvHost("max_pooling", l),
                       EvReturn("pooling_layer", l, OtherHost(result_loc))>>
    /\ result_loc' = OtherHost(result_loc)
    /\ l' = l + 1
    /\ UNCHANGED <<layers, depth, pc, err, layer_num, conv_cfgs, current_result_loc,
                   dev, fill, mapped, conv>>

(* run_layer on a pooling layer: pooling_layer (smiv.c:369-380) *)
PoolingLayer ==
    /\ pc = "loop"
    /\ l < depth
    /\ layers[l].type = "POOLING"
    /\ LET activations == result_loc
           result == OtherHost(result_loc)
       IN  IF layers[l].pool = "MAX"
           THEN /\ host' = [host EXCEPT ![result] = HostBuf(l + 1, FALSE, <<>>)]
                /\ log' = log \o <<EvCall("pooling_layer", l, activations, result),
                                   EvHost("max_pooling", l),
                                   EvReturn("pooling_layer", l, result)>>
                /\ result_loc' = result
                /\ l' = l + 1
                /\ UNCHANGED <<pc, err>>
           ELSE /\ pc' = "aborted"
                /\ err' = "pooling"
                /\ log' = log \o <<EvCall("pooling_layer", l, activations, result)>>
                /\ UNCHANGED <<host, result_loc, l>>
    /\ UNCHANGED <<layers, depth, layer_num, conv_cfgs, current_result_loc, dev,
                   fill, mapped, conv>>

--------------------------------------------------------------------------
(* convolution_layer and convolution_runner *)

(* result_2d_size (smiv.c:246) *)
Result2dSize(ly) == ly.outputs.rows * (ly.outputs.cols + ly.outputs.align_pad)

(* The channels of result_2d_size floats that a scratchpad holds *)
SpadChannels(ly) == SPAD_SIZE \div (Result2dSize(ly) * SIZEOF_FLOAT)

(* PartialLayer keeping the activation of the layer in every plan *)
PartialLayerKeepActivation(curr_layer, iter_cfg, num_iterations) ==
    [curr_layer EXCEPT !.inputs.height = iter_cfg.height,
                       !.outputs.height = iter_cfg.height,
                       !.weights.height = iter_cfg.height]

(* The layer description of one iteration (smiv.c:281-287) *)
PartialLayer(curr_layer, iter_cfg, num_iterations) ==
    [curr_layer EXCEPT !.inputs.height = iter_cfg.height,
                       !.outputs.height = iter_cfg.height,
                       !.weights.height = iter_cfg.height,
                       !.activation = IF num_iterations = 1 THEN @ ELSE "NONE"]

(* The layer description of the final reduction (smiv.c:310-316) *)
FinalPartialLayer(curr_layer, num_iterations) ==
    [curr_layer EXCEPT
        !.inputs.height = Min(num_iterations, SPAD_SIZE \div Result2dSize(curr_layer)),
        !.outputs.height = 1]

(* result_iter (smiv.c:305-307) *)
ResultIter(ly, num_iterations) == Ceil(Result2dSize(ly) * num_iterations, SPAD_SIZE)

EvInvokeConvolution(lnum, c, partial_layer) ==
    [op |-> "invoke", kernel |-> "convolution_layer_hw", layer |-> lnum,
     host_activations |-> c.host_activations, local_activations |-> "umem",
     local_weights |-> "spad0", partial_layer |-> partial_layer,
     img |-> c.img, kern |-> c.kern, iter |-> c.iter,
     start_chan |-> c.start_chan, result |-> "spad1"]

EvInvokeReduction(lnum, c, partial_layer, final) ==
    [op |-> "invoke", kernel |-> "reduction_hw", layer |-> lnum,
     unreduced_activations |-> "spad1", partial_layer |-> partial_layer,
     local_result |-> "umem", host_result |-> "temp_result",
     off |-> c.result_loc, img |-> c.img, kern |-> c.kern, iter |-> c.iter,
     final |-> final]

(* convolution_layer_hw (smiv.c:132-171): the buffers it leaves *)
ConvolutionLayerHw(host_activations, local_activations, local_weights, partial_layer, lnum, img, kern, start_chan, result) ==
    LET h == partial_layer.weights.height
        d1 == [dev EXCEPT ![local_weights] =
                  WriteSlots(@, 0, h,
                      [j \in 0..(h - 1) |-> One(WgtAtom(lnum, kern, start_chan + j))])]
        n == partial_layer.inputs.height
        d2 == IF partial_layer.needs_input_dma_load
              THEN [d1 EXCEPT ![local_activations] =
                      WriteSlots(@, 0, n,
                          [j \in 0..(n - 1) |->
                              One(ActAtom(host[host_activations].gen, img,
                                          start_chan + j))])]
              ELSE d1
    IN  [d2 EXCEPT ![result] =
            WriteSlots(@, 0, n,
                Convolution3dSmiv(d2[local_activations], d2[local_weights],
                                  partial_layer, lnum))]

(* The transfers convolution_layer_hw makes (smiv.c:158-167) *)
ConvolutionLayerHwTransfers(host_activations, local_activations, local_weights, partial_layer, lnum) ==
    <<EvDmaLoad(local_weights, "weights", "weights", lnum)>>
    \o (IF partial_layer.needs_input_dma_load
        THEN <<EvDmaLoad(local_activations, host_activations, "activations", lnum)>>
        ELSE <<>>)

(* The bytes of the weights convolution_layer_hw loads (smiv.c:155-159) *)
WeightSliceBytes(partial_layer) ==
    partial_layer.weights.rows * partial_layer.weights.height
        * (partial_layer.weights.cols + partial_layer.weights.align_pad) * SIZEOF_FLOAT

(* The bytes of the activations convolution_layer_hw loads (smiv.c:163-167) *)
ActivationSliceBytes(partial_layer) ==
    partial_layer.inputs.rows * partial_layer.inputs.height
        * (partial_layer.inputs.cols + partial_layer.inputs.align_pad) * SIZEOF_FLOAT

(* run_layer on a convolution layer: convolution_layer up to its call of   *)
(* convolution_runner (smiv.c:335-364).                                    *)
ConvolutionLayer ==
    /\ pc = "loop"
    /\ l < depth
    /\ layers[l].type = "CONV"
    /\ LET activations == result_loc
           result == OtherHost(result_loc)
       IN  /\ mapped' = [mapped EXCEPT !.host_weights = [array |-> "weights", off |-> l]]
           /\ IF layers[l].c_padding > 0
              THEN /\ host' = [host EXCEPT ![result] =
                                  HostBuf(host[activations].gen, TRUE, <<>>)]
                   /\ conv' = [NoConv EXCEPT !.host_activations = result,
                                             !.host_result = activations,
                                             !.ret = activations]
                   /\ log' = log \o <<EvCall("convolution_layer", l, activations, result),
                                      EvMap("host_weights", "weights", l, l),
                                      EvHost("copy_zeropad", l)>>
              ELSE /\ host' = host
                   /\ conv' = [NoConv EXCEPT !.host_activations = activations,
                                             !.host_result = result,
                                             !.ret = result]
                   /\ log' = log \o <<EvCall("convolution_layer", l, activations, result),
                                      EvMap("host_weights", "weights", l, l)>>
    /\ pc' = "convolution_runner"
    /\ UNCHANGED <<layers, depth, err, layer_num, conv_cfgs, l, result_loc,
                   current_result_loc, dev, fill>>

(* convolution_runner up to its loops (smiv.c:241-262) *)
ConvolutionRunner ==
    /\ pc = "convolution_runner"
    /\ LET cfg == ConvolutionDivideWork(layers, l)
       IN  /\ conv_cfgs' = cfg
           /\ err' = cfg.err
           /\ IF cfg.err = "none"
              THEN /\ pc' = "conv_loop"
                   /\ log' = log \o <<EvMalloc("temp_result")>>
              ELSE /\ pc' = "aborted"
                   /\ log' = log
    /\ UNCHANGED <<layers, depth, layer_num, l, result_loc, current_result_loc,
                   dev, fill, host, mapped, conv>>

(* ConvolutionInvoke deriving the partial layer in the layer descriptor itself *)
ConvolutionInvokeInPlace ==
    /\ pc = "conv_loop"
    /\ conv.iter < conv_cfgs.num_iterations
    /\ LET partial_layer == PartialLayer(layers[l], conv_cfgs.iteration[conv.iter],
                                         conv_cfgs.num_iterations)
       IN  /\ layers' = [layers EXCEPT ![l] = partial_layer]
           /\ conv' = [conv EXCEPT !.partial_layer = partial_layer]
    /\ pc' = "conv_reduce"
    /\ UNCHANGED <<depth, err, layer_num, conv_cfgs, l, result_loc,
                   current_result_loc, dev, fill, host, mapped, log>>

(* One iteration, first half: the map and the compute invocation           *)
(* (smiv.c:273-291).                                                       *)
ConvolutionInvoke ==
    /\ pc = "conv_loop"
    /\ conv.iter < conv_cfgs.num_iterations
    /\ LET partial_layer == PartialLayer(layers[l], conv_cfgs.iteration[conv.iter],
                                         conv_cfgs.num_iterations)
       IN  /\ mapped' = [mapped EXCEPT
                  !.host_result = [array |-> "temp_result", off |-> conv.result_loc]]
           /\ dev' = ConvolutionLayerHw(conv.host_activations, "umem", "spad0",
                                        partial_layer, l, conv.img, conv.kern,
                                        conv.start_chan, "spad1")
           /\ conv' = [conv EXCEPT !.partial_layer = partial_layer]
           /\ log' = log \o <<EvMap("host_result", "temp_result", conv.result_loc, l),
                              EvInvokeConvolution(l, conv, partial_layer)>>
                      \o ConvolutionLayerHwTransfers(conv.host_activations, "umem",
                                                     "spad0", partial_layer, l)
    /\ pc' = "conv_reduce"
    /\ UNCHANGED <<layers, depth, err, layer_num, conv_cfgs, l, result_loc,
                   current_result_loc, fill, host>>

(* ReductionHw summing the scratchpad of the weights *)
ReductionHwFromWeights(unreduced_activations, partial_layer, cap, oob) ==
    ReductionSmiv(dev["spad0"], partial_layer.inputs.height, cap, oob)

(* reduction_hw (smiv.c:117-130): the reduced channel, left in the local   *)
(* result and stored to the host.                                          *)
ReductionHw(unreduced_activations, partial_layer, cap, oob) ==
    ReductionSmiv(dev[unreduced_activations], partial_layer.inputs.height, cap, oob)

(* NextSlot staying on the slot *)
NextSlotSame(slot, ly) == slot

(* result_loc += result_2d_size (smiv.c:297) *)
NextSlot(slot, ly) == slot + Result2dSize(ly)

(* NextStartChan stepping by one channel *)
NextStartChanByOne(start_chan, iter_cfg) == start_chan + 1

(* start_chan += iter_cfg.height (smiv.c:298) *)
NextStartChan(start_chan, iter_cfg) == start_chan + iter_cfg.height

(* One iteration, second half: the reduction of its channels into its slot *)
(* of temp_result (smiv.c:293-298).                                        *)
ConvolutionReduce ==
    /\ pc = "conv_reduce"
    /\ LET r == ReductionHw("spad1", conv.partial_layer, SpadChannels(layers[l]), fill)
       IN  /\ dev' = [dev EXCEPT !.umem = WriteSlots(@, 0, 1, [j \in {0} |-> r])]
           /\ conv' = [conv EXCEPT
                  !.temp_result = (conv.result_loc :> r) @@ @,
                  !.result_loc = NextSlot(@, layers[l]),
                  !.start_chan = NextStartChan(@, conv_cfgs.iteration[conv.iter]),
                  !.iter = @ + 1]
           /\ log' = log \o <<EvInvokeReduction(l, conv, conv.partial_layer, FALSE),
                              EvDmaStore("temp_result", "umem", "reduced", l)>>
    /\ pc' = "conv_loop"
    /\ UNCHANGED <<layers, depth, err, layer_num, conv_cfgs, l, result_loc,
                   current_result_loc, fill, host, mapped>>

(* FinalReductionDue after the first iteration already *)
FinalReductionDueEarly ==
    /\ pc = "conv_loop"
    /\ conv.iter >= 1
    /\ conv_cfgs.num_iterations > 1

(* The iterations of a pair are over and there were several (smiv.c:302) *)
FinalReductionDue ==
    /\ pc = "conv_loop"
    /\ conv.iter = conv_cfgs.num_iterations
    /\ conv_cfgs.num_iterations > 1

(* The assert of smiv.c:308 fails *)
FinalReductionAbort ==
    /\ FinalReductionDue
    /\ ResultIter(layers[l], conv_cfgs.num_iterations) # 1
    /\ pc' = "aborted"
    /\ err' = "final_reduction"
    /\ UNCHANGED <<layers, depth, layer_num, conv_cfgs, fwdVars>>

(* The final reduction round (smiv.c:302-326). It reduces the first        *)
(* num_result_chans channels of spad1; the channels past the end of spad1   *)
(* read memory that the program never wrote.                               *)
FinalReduction ==
    /\ FinalReductionDue
    /\ ResultIter(layers[l], conv_cfgs.num_iterations) = 1
    /\ LET partial_layer == FinalPartialLayer(layers[l], conv_cfgs.num_iterations)
           c0 == [conv EXCEPT !.result_loc = 0, !.iter = 0]
           r == ReductionHw("spad1", partial_layer, SpadChannels(layers[l]), fill)
       IN  /\ dev' = [dev EXCEPT !.umem = WriteSlots(@, 0, 1, [j \in {0} |-> r])]
           /\ conv' = [conv EXCEPT !.temp_result = (0 :> r) @@ @,
                                   !.result_loc = Result2dSize(layers[l])]
           /\ mapped' = [mapped EXCEPT
                  !.host_result = [array |-> "temp_result", off |-> 0]]
           /\ log' = log \o <<EvMap("host_result", "temp_result", 0, l),
                              EvInvokeReduction(l, c0, partial_layer, TRUE),
                              EvDmaStore("temp_result", "umem", "reduced", l)>>
    /\ pc' = "conv_assemble"
    /\ UNCHANGED <<layers, depth, err, layer_num, conv_cfgs, l, result_loc,
                   current_result_loc, fill, host>>

(* The read past the end of spad1 faults *)
FinalReductionFault ==
    /\ FinalReductionDue
    /\ ResultIter(layers[l], conv_cfgs.num_iterations) = 1
    /\ FinalPartialLayer(layers[l], conv_cfgs.num_iterations).inputs.height
           > SpadChannels(layers[l])
    /\ pc' = "aborted"
    /\ err' = "fault"
    /\ log' = log \o <<EvMap("host_result", "temp_result", 0, l)>>
    /\ mapped' = [mapped EXCEPT !.host_result = [array |-> "temp_result", off |-> 0]]
    /\ UNCHANGED <<layers, depth, layer_num, conv_cfgs, l, result_loc,
                   current_result_loc, dev, fill, host, conv>>

(* ResultOffset with the image and the kernel exchanged *)
ResultOffsetKernelMajor(img, kern, ly) == (kern * NUM_TEST_CASES + img) * Result2dSize(ly)

(* &_result[img][kern][0][0] (smiv.c:247-248, 327), in floats from host_result *)
ResultOffset(img, kern, ly) == (img * ly.outputs.height + kern) * Result2dSize(ly)

(* AssembleOutput stepping through the images before the kernels *)
AssembleOutputImagesInnermost ==
    /\ \/ pc = "conv_assemble"
       \/ /\ pc = "conv_loop"
          /\ conv.iter = conv_cfgs.num_iterations
          /\ conv_cfgs.num_iterations = 1
    /\ LET num_kerns == layers[l].outputs.height
           off == (conv.img * num_kerns + conv.kern) * Result2dSize(layers[l])
           last_kern == conv.kern + 1 >= num_kerns
           last_img == conv.img + 1 >= NUM_TEST_CASES
       IN  /\ host' = [host EXCEPT ![conv.host_result] =
                  HostBuf(l + 1, FALSE, (off :> Read(conv.temp_result, 0)) @@ @.slices)]
           /\ log' = log \o <<[op |-> "memcpy", layer |-> l, array |-> conv.host_result,
                               off |-> off, img |-> conv.img, kern |-> conv.kern]>>
           /\ conv' = [conv EXCEPT
                  !.img = IF last_img THEN 0 ELSE @ + 1,
                  !.kern = IF last_img THEN @ + 1 ELSE @,
                  !.iter = 0, !.start_chan = 0, !.result_loc = 0]
           /\ pc' = IF last_kern /\ last_img THEN "conv_return" ELSE "conv_loop"
    /\ UNCHANGED <<layers, depth, err, layer_num, conv_cfgs, l, result_loc,
                   current_result_loc, dev, fill, mapped>>

(* The memcpy of smiv.c:327-328 and the step to the next kernel or image *)
AssembleOutput ==
    /\ \/ pc = "conv_assemble"
       \/ /\ pc = "conv_loop"
          /\ conv.iter = conv_cfgs.num_iterations
          /\ conv_cfgs.num_iterations = 1
    /\ LET num_kerns == layers[l].outputs.height
           off == ResultOffset(conv.img, conv.kern, layers[l])
           old == host[conv.host_result]
           base == IF old.gen = l + 1 /\ ~old.pad THEN old.slices ELSE <<>>
           last_kern == conv.kern + 1 >= num_kerns
           last_img == conv.img + 1 >= NUM_TEST_CASES
       IN  /\ host' = [host EXCEPT ![conv.host_result] =
                  HostBuf(l + 1, FALSE, (off :> Read(conv.temp_result, 0)) @@ base)]
           /\ log' = log \o <<[op |-> "memcpy", layer |-> l, array |-> conv.host_result,
                               off |-> off, img |-> conv.img, kern |-> conv.kern]>>
           /\ conv' = [conv EXCEPT
                  !.kern = IF last_kern THEN 0 ELSE @ + 1,
                  !.img = IF last_kern THEN @ + 1 ELSE @,
                  !.iter = 0, !.start_chan = 0, !.result_loc = 0]
           /\ pc' = IF last_kern /\ last_img THEN "conv_return" ELSE "conv_loop"
    /\ UNCHANGED <<layers, depth, err, layer_num, conv_cfgs, l, result_loc,
                   current_result_loc, dev, fill, mapped>>

(* The end of convolution_runner and of convolution_layer (smiv.c:331-332, *)
(* 361, 365), back in the loop of nnet_fwd.                                *)
ConvolutionReturn ==
    /\ pc = "conv_return"
    /\ log' = log \o <<EvFree("iteration"), EvFree("temp_result"),
                       EvReturn("convolution_layer", l, conv.ret)>>
    /\ result_loc' = conv.ret
    /\ l' = l + 1
    /\ pc' = "loop"
    /\ UNCHANGED <<layers, depth, err, layer_num, conv_cfgs, current_result_loc, dev, fill, host, mapped, conv>>

--------------------------------------------------------------------------
(* The work divider applied to one convolution layer of any shape *)

PlanOutRows == {8, 80, 128, 256}

PlanOutCols == {8, 125, 128, 256}

PlanInRows == {8, 128, 1024}

PlanInCols == {8, 125, 128, 1024}

(* Kernel widths: a 3x3 kernel, and the 121x121 kernel that takes a        *)
(* 128x128 input to an 8x8 output.                                         *)
PlanKernelWidths == {3, 121}

PlanLayers ==
    { MkLayer("CONV", "NONE", "UNFLATTEN", "MAX", 0,
              Dims(ir, ic, h, CalcPadding(ic, DATA_ALIGNMENT)),
              Dims(k, k, h, CalcPadding(k, DATA_ALIGNMENT)),
              Dims(or, oc, 2, CalcPadding(oc, DATA_ALIGNMENT))) :
        ir \in PlanInRows, ic \in PlanInCols, or \in PlanOutRows,
        oc \in PlanOutCols, h \in 1..MaxChannels, k \in PlanKernelWidths }

InitPlan ==
    /\ depth = 1
    /\ layers \in [0..0 -> PlanLayers]
    /\ pc = "divide_work"
    /\ err = "none"
    /\ layer_num = 0
    /\ conv_cfgs = NoPlan("none")
    /\ InitIdle

(* A call of convolution_divide_work(layers, 0); assert(false) ends the run *)
DivideWork ==
    /\ pc = "divide_work"
    /\ LET cfg == ConvolutionDivideWork(layers, 0)
       IN  /\ conv_cfgs' = cfg
           /\ err' = cfg.err
           /\ pc' = IF cfg.err = "none" THEN "divided" ELSE "aborted"
    /\ UNCHANGED <<layers, depth, layer_num, fwdVars>>

NextPlan == DivideWork

SpecPlan == InitPlan /\ [][NextPlan]_vars

--------------------------------------------------------------------------
(* The DMA requirement pass applied to any network *)

DmaActivations == {"NONE", "SIGMOID"}

DmaLayers(flag) ==
    { [MkLayer(t, a, ip, "MAX", 0, NoDims, NoDims, NoDims)
          EXCEPT !.needs_input_dma_load = flag, !.needs_output_dma_store = flag] :
        t \in LayerTypes, a \in DmaActivations, ip \in Preprocessing }

InitDma ==
    /\ depth \in 1..MaxDepth
    /\ \E flag \in BOOLEAN : layers \in [0..(depth - 1) -> DmaLayers(flag)]
    /\ pc = "set_dma"
    /\ err = "none"
    /\ layer_num = 0
    /\ conv_cfgs = NoPlan("none")
    /\ InitIdle

NextDma == SetDmaLayer \/ SetDmaReturn

SpecDma == InitDma /\ [][NextDma]_vars

--------------------------------------------------------------------------
(* nnet_fwd: the forward pass over any network of the shapes below *)

(* The mallocs and the start of nnet_fwd (smiv.c:449-467) *)
NnetFwdBegin ==
    /\ pc = "nnet_fwd"
    /\ result_loc' = "activations"
    /\ l' = 0
    /\ layer_num' = 0
    /\ log' = log \o <<EvMalloc("umem"), EvMalloc("spad0"), EvMalloc("spad1"),
                       EvHost("set_dma_requirements", 0)>>
    /\ pc' = "set_dma"
    /\ UNCHANGED <<layers, depth, err, conv_cfgs, current_result_loc, dev, fill,
                   host, mapped, conv>>

(* MAP_ARRAY_TO_ACCEL of the activations (smiv.c:469-470) *)
MapActivations ==
    /\ pc = "map_activations"
    /\ mapped' = [mapped EXCEPT !.host_activations = [array |-> "activations", off |-> 0]]
    /\ log' = log \o <<EvMap("host_activations", "activations", 0, 0)>>
    /\ l' = 0
    /\ pc' = "loop"
    /\ UNCHANGED <<layers, depth, err, layer_num, conv_cfgs, result_loc,
                   current_result_loc, dev, fill, host, conv>>

(* NnetFwdEnd releasing the buffers before the stores *)
NnetFwdEndFreeFirst ==
    /\ pc = "loop"
    /\ l >= depth
    /\ layers' = [layers EXCEPT ![depth - 1].result_in_temp = (result_loc = "result")]
    /\ log' = log \o <<EvFree("umem"), EvFree("spad0"), EvFree("spad1"),
                       EvDmaStore(result_loc, result_loc, "output", depth - 1),
                       EvDmaStore("layers", "layers", "layers", depth - 1)>>
    /\ pc' = "done"
    /\ UNCHANGED <<depth, err, layer_num, conv_cfgs, l, result_loc,
                   current_result_loc, dev, fill, host, mapped, conv>>

(* NnetFwdEnd storing the host buffer the last layer did not return *)
NnetFwdEndOtherBuffer ==
    /\ pc = "loop"
    /\ l >= depth
    /\ layers' = [layers EXCEPT ![depth - 1].result_in_temp = (result_loc = "result")]
    /\ log' = log \o <<EvDmaStore(OtherHost(result_loc), OtherHost(result_loc), "output", depth - 1),
                       EvDmaStore("layers", "layers", "layers", depth - 1),
                       EvFree("umem"), EvFree("spad0"), EvFree("spad1")>>
    /\ pc' = "done"
    /\ UNCHANGED <<depth, err, layer_num, conv_cfgs, l, result_loc,
                   current_result_loc, dev, fill, host, mapped, conv>>

(* After the loop: result_in_temp, the stores and the frees (smiv.c:489-500) *)
NnetFwdEnd ==
    /\ pc = "loop"
    /\ l >= depth
    /\ layers' = [layers EXCEPT ![depth - 1].result_in_temp = (result_loc = "result")]
    /\ log' = log \o <<EvDmaStore(result_loc, result_loc, "output", depth - 1),
                       EvDmaStore("layers", "layers", "layers", depth - 1),
                       EvFree("umem"), EvFree("spad0"), EvFree("spad1")>>
    /\ pc' = "done"
    /\ UNCHANGED <<depth, err, layer_num, conv_cfgs, l, result_loc,
                   current_result_loc, dev, fill, host, mapped, conv>>

(* Convolution layers: <<input rows and cols, output rows and cols, input  *)
(* channels, kernels, c_padding, activation>>                              *)
ConvConfigs ==
    { <<8, 8, 2, 2, 0, "RELU">>,
      <<128, 128, 3, 1, 0, "RELU">>,
      <<128, 128, 5, 2, 1, "NONE">>,
      <<128, 128, 17, 1, 0, "NONE">>,
      <<8, 256, 1, 1, 0, "NONE">>,
      <<1024, 8, 1, 1, 0, "NONE">> }

ConvLayers ==
    { MkLayer("CONV", c[6], "UNFLATTEN", "MAX", c[5],
              Dims(c[1], c[1], c[3], CalcPadding(c[1], DATA_ALIGNMENT)),
              Dims(3, 3, c[3], CalcPadding(3, DATA_ALIGNMENT)),
              Dims(c[2], c[2], c[4], CalcPadding(c[2], DATA_ALIGNMENT))) :
        c \in ConvConfigs }

FcLayers ==
    { MkLayer("FC", c[1], c[2], "MAX", 0,
              Dims(1, 64, 1, 0), Dims(64, 10, 1, 6), Dims(1, 10, 1, 6)) :
        c \in {<<"NONE", "UNFLATTEN">>, <<"SIGMOID", "UNFLATTEN">>,
               <<"RELU", "FLATTEN">>} }

PoolLayers ==
    { MkLayer("POOLING", "NONE", "UNFLATTEN", pl, 0,
              Dims(8, 8, 2, 0), Dims(2, 2, 2, 6), Dims(4, 4, 2, 4)) :
        pl \in PoolTypes }

FwdLayers == ConvLayers \cup FcLayers \cup PoolLayers

(* The state when nnet_fwd is entered with a network of layers from ls *)
InitNetwork(max_depth, ls) ==
    /\ depth \in 1..max_depth
    /\ layers \in [0..(depth - 1) -> ls]
    /\ pc = "nnet_fwd"
    /\ err = "none"
    /\ layer_num = 0
    /\ conv_cfgs = NoPlan("none")
    /\ l = 0
    /\ result_loc = "none"
    /\ current_result_loc = "NULL"
    /\ dev = [umem |-> <<>>, spad0 |-> <<>>, spad1 |-> <<>>]
    /\ fill \in Uninitialized
    /\ host = [activations |-> HostBuf(0, FALSE, <<>>),
               result |-> HostBuf(-1, FALSE, <<>>)]
    /\ mapped = [host_activations |-> NoMapping, host_weights |-> NoMapping,
                 host_result |-> NoMapping]
    /\ conv = NoConv
    /\ log = <<>>

(* Short networks of layers of every shape *)
Init == InitNetwork(ShortDepth, FwdLayers)

Next ==
    \/ NnetFwdBegin
    \/ SetDmaLayer
    \/ SetDmaReturn
    \/ MapActivations
    \/ InnerProductLayer
    \/ PoolingLayer
    \/ ConvolutionLayer
    \/ ConvolutionRunner
    \/ ConvolutionInvoke
    \/ ConvolutionReduce
    \/ FinalReductionAbort
    \/ FinalReduction
    \/ FinalReductionFault
    \/ AssembleOutput
    \/ ConvolutionReturn
    \/ NnetFwdEnd

Spec == Init /\ [][Next]_vars

(* Longer networks of layers that run to the end: inner products, max      *)
(* pooling, and convolutions that fit one iteration.                       *)
PipelineLayers ==
    { ly \in FwdLayers :
        \/ ly.type = "FC"
        \/ ly.type = "POOLING" /\ ly.pool = "MAX"
        \/ ly.type = "CONV" /\ ly.inputs.rows = 8 /\ ly.outputs.rows = 8 }

InitPipeline == InitNetwork(MaxDepth, PipelineLayers)

NextPipeline ==
    \/ NnetFwdBegin
    \/ SetDmaLayer
    \/ SetDmaReturn
    \/ MapActivations
    \/ InnerProductLayer
    \/ PoolingLayer
    \/ ConvolutionLayer
    \/ ConvolutionRunner
    \/ ConvolutionInvoke
    \/ ConvolutionReduce
    \/ AssembleOutput
    \/ ConvolutionReturn
    \/ NnetFwdEnd

SpecPipeline == InitPipeline /\ [][NextPipeline]_vars

--------------------------------------------------------------------------
(* Properties of the work divider, under SpecPlan *)

(* S: the bytes of one channel of the output of one kernel *)
PerChannelFootprint(ly) ==
    ly.outputs.rows * (ly.outputs.cols + ly.outputs.align_pad) * SIZEOF_FLOAT

(* output rows x (output cols + pad) x input channels x element size *)
PerKernelFootprint(ly) == PerChannelFootprint(ly) * ly.inputs.height

(* The bytes of the full input of one image *)
SingleImageFootprint(ly) ==
    ly.inputs.rows * (ly.inputs.cols + ly.inputs.align_pad) * ly.inputs.height
        * SIZEOF_FLOAT

RECURSIVE SumOfChannels(_, _)
SumOfChannels(cfg, n) ==
    IF n = 0 THEN 0 ELSE cfg.iteration[n - 1].height + SumOfChannels(cfg, n - 1)

DivideWorkCalled == pc \in {"divided", "aborted"}

(* The plan is the greedy channel-wise partition of the layer's channels *)
IsChannelPartition(cfg, ly) ==
    LET m == SPAD_SIZE \div PerChannelFootprint(ly)
        n == cfg.num_iterations
    IN  /\ n * m >= ly.inputs.height
        /\ (n - 1) * m < ly.inputs.height
        /\ DOMAIN cfg.iteration = 0..(n - 1)
        /\ SumOfChannels(cfg, n) = ly.inputs.height
        /\ \A i \in 0..(n - 1) : cfg.iteration[i].height <= m
        /\ \A i \in 0..(n - 2) : cfg.iteration[i].height = m

NeedsChannelTiling(ly) ==
    /\ PerKernelFootprint(ly) > SPAD_SIZE
    /\ SPAD_SIZE \div PerChannelFootprint(ly) >= 2

(* C1, as stated: every layer whose per-kernel unreduced output exceeds a   *)
(* scratch buffer and with floor(C/S) >= 2 gets ceil(channels/floor(C/S))  *)
(* iterations summing to the channel count, each <= floor(C/S), all but    *)
(* the last equal to floor(C/S).                                           *)
C1_AsStated ==
    (DivideWorkCalled /\ NeedsChannelTiling(layers[0]))
        => (pc = "divided" /\ IsChannelPartition(conv_cfgs, layers[0]))

(* C1, amended: the same, for the layers whose single-image input fits the *)
(* unified buffer.                                                         *)
C1_ChannelPartition ==
    (/\ DivideWorkCalled
     /\ NeedsChannelTiling(layers[0])
     /\ SingleImageFootprint(layers[0]) <= UMEM_SIZE)
        => (pc = "divided" /\ IsChannelPartition(conv_cfgs, layers[0]))

C1_Witness ==
    /\ pc = "divided"
    /\ conv_cfgs.num_iterations = 3
    /\ conv_cfgs.iteration[2].height < conv_cfgs.iteration[1].height

IsSingleIteration(cfg, ly) ==
    /\ cfg.num_iterations = 1
    /\ DOMAIN cfg.iteration = {0}
    /\ cfg.iteration[0].height = ly.inputs.height

(* C2, as stated: every layer whose per-kernel unreduced-output footprint  *)
(* is <= the scratch capacity gets exactly one iteration covering all its  *)
(* input channels.                                                         *)
C2_AsStated ==
    (DivideWorkCalled /\ PerKernelFootprint(layers[0]) <= SPAD_SIZE)
        => (pc = "divided" /\ IsSingleIteration(conv_cfgs, layers[0]))

(* C2, amended: the same, for the layers whose single-image input fits the *)
(* unified buffer.                                                         *)
C2_SingleIteration ==
    (/\ DivideWorkCalled
     /\ PerKernelFootprint(layers[0]) <= SPAD_SIZE
     /\ SingleImageFootprint(layers[0]) <= UMEM_SIZE)
        => (pc = "divided" /\ IsSingleIteration(conv_cfgs, layers[0]))

C2_Witness ==
    /\ pc = "divided"
    /\ conv_cfgs.num_iterations = 1
    /\ layers[0].inputs.height >= 2
    /\ PerKernelFootprint(layers[0]) = SPAD_SIZE

(* C6: a single-image input larger than the unified buffer ends the call   *)
(* with the configuration error of the UMEM check and no plan, whatever    *)
(* the tiling tests would have decided.                                    *)
C6_UmemCheckedFirst ==
    (DivideWorkCalled /\ SingleImageFootprint(layers[0]) > UMEM_SIZE)
        => (/\ pc = "aborted"
            /\ err = "umem"
            /\ conv_cfgs.num_iterations = 0
            /\ conv_cfgs.iteration = <<>>)

C6_Witness ==
    /\ pc = "aborted"
    /\ err = "umem"
    /\ PerKernelFootprint(layers[0]) > SPAD_SIZE
    /\ SPAD_SIZE \div PerChannelFootprint(layers[0]) < 2

(* C7: a layer whose per-kernel unreduced output exceeds a scratch buffer  *)
(* and with floor(C/S) < 2 ends the call with a configuration error and no *)
(* plan.                                                                   *)
C7_NoSpatialTiling ==
    (/\ DivideWorkCalled
     /\ PerKernelFootprint(layers[0]) > SPAD_SIZE
     /\ SPAD_SIZE \div PerChannelFootprint(layers[0]) < 2)
        => (/\ pc = "aborted"
            /\ err \in {"umem", "tiled"}
            /\ conv_cfgs.num_iterations = 0
            /\ conv_cfgs.iteration = <<>>)

C7_Witness ==
    /\ pc = "aborted"
    /\ err = "tiled"
    /\ SPAD_SIZE \div PerChannelFootprint(layers[0]) = 1
    /\ layers[0].inputs.height = 2

--------------------------------------------------------------------------
(* Properties of the DMA requirement pass, under SpecDma *)

SetDmaDone == pc = "map_activations"

(* C4: after set_dma_requirements, layer 0 loads no input and stores its   *)
(* output, every later layer loads its input exactly when its predecessor  *)
(* stored its output, and the last layer stores its output.                *)
C4_DmaChain ==
    SetDmaDone =>
        /\ layers[0].needs_input_dma_load = FALSE
        /\ layers[0].needs_output_dma_store = TRUE
        /\ \A i \in 1..(depth - 1) :
              layers[i].needs_input_dma_load = layers[i - 1].needs_output_dma_store
        /\ layers[depth - 1].needs_output_dma_store = TRUE

C4_Witness ==
    /\ SetDmaDone
    /\ depth = 3
    /\ layers[1].needs_output_dma_store = FALSE
    /\ layers[2].needs_input_dma_load = FALSE
    /\ layers[1].needs_input_dma_load = TRUE

(* The rule of the spec for a layer i > 0 *)
StoreRule(i) ==
    \/ i = depth - 1
    \/ layers[i].activation = "SIGMOID"
    \/ layers[i].type \in {"POOLING", "CONV"}
    \/ layers[i].input_preprocessing = "FLATTEN"
    \/ (i + 1 < depth /\ layers[i + 1].type \in {"POOLING", "SOFTMAX"})

IsConvPoolFc ==
    /\ depth = 3
    /\ layers[0].type = "CONV"
    /\ layers[1].type = "POOLING"
    /\ layers[2].type = "FC"

(* C5: for every layer i > 0 the output flag is true exactly when the rule *)
(* holds (last layer, sigmoid, pooling or convolution, flatten, or next    *)
(* layer pooling or softmax); the network conv, pooling, inner-product     *)
(* gets output flags [true, true, true] and input flags [false, true,      *)
(* true].                                                                  *)
C5_StoreRule ==
    SetDmaDone =>
        /\ \A i \in 1..(depth - 1) : layers[i].needs_output_dma_store = StoreRule(i)
        /\ IsConvPoolFc =>
              /\ \A i \in 0..2 : layers[i].needs_output_dma_store = TRUE
              /\ layers[0].needs_input_dma_load = FALSE
              /\ layers[1].needs_input_dma_load = TRUE
              /\ layers[2].needs_input_dma_load = TRUE

C5_Witness ==
    /\ SetDmaDone
    /\ depth = 3
    /\ layers[1].type = "FC"
    /\ layers[1].activation = "NONE"
    /\ layers[1].input_preprocessing = "FLATTEN"
    /\ layers[2].type = "FC"
    /\ layers[1].needs_output_dma_store = TRUE

--------------------------------------------------------------------------
(* Properties of the forward pass, under Spec and SpecPipeline *)

LogIndices == 1..Len(log)

IsInvokeOf(k, kernel) == log[k].op = "invoke" /\ log[k].kernel = kernel

(* The slice of the pair (img, kern) of layer lnum reduced in one untiled  *)
(* pass: the sum over all the input channels of the per-channel outputs.   *)
UntiledSlice(lnum, img, kern) ==
    SetToBag({ConvAtom(lnum, img, kern, c) : c \in 0..(layers[lnum].inputs.height - 1)})

(* The pairs (img, kern) of the running convolution layer whose slice is   *)
(* assembled already.                                                      *)
AssembledPairs ==
    {p \in (0..(NUM_TEST_CASES - 1)) \X (0..(layers[l].outputs.height - 1)) :
        \/ p[1] < conv.img
        \/ p[1] = conv.img /\ p[2] < conv.kern}

(* The convolution layer l is running, its plan is made, and it loads the  *)
(* input the previous layer stored.                                        *)
ConvolutionRunning ==
    /\ pc \in {"conv_loop", "conv_reduce", "conv_assemble", "conv_return"}
    /\ layers[l].needs_input_dma_load
    /\ host[conv.host_activations].gen = l

AssembledSlice(p) ==
    Read(host[conv.host_result].slices,
         (p[1] * layers[l].outputs.height + p[2]) * Result2dSize(layers[l]))

(* A plan of one iteration assembles the untiled slice of every pair *)
UntiledPassAssemblesSum ==
    ConvolutionRunning /\ conv_cfgs.num_iterations = 1
        => \A p \in AssembledPairs : AssembledSlice(p) = UntiledSlice(l, p[1], p[2])

(* C3: for every (image, kernel) pair of a convolution layer run in more   *)
(* than one iteration and one final-reduction round, the assembled output  *)
(* slice is the sum over all input channels of the per-channel             *)
(* convolution outputs, as a single untiled pass would give.               *)
C3_TilingInvariance ==
    ConvolutionRunning /\ conv_cfgs.num_iterations > 1
        => \A p \in AssembledPairs : AssembledSlice(p) = UntiledSlice(l, p[1], p[2])

(* The bytes of the partial slots of all the iterations of layer ly *)
PartialSlotsBytes(ly, num_iterations) ==
    num_iterations * Result2dSize(ly) * SIZEOF_FLOAT

(* C8: the final reduction round is invoked only when the partial slots of *)
(* all the iterations together fit a scratch buffer; a plan whose partial  *)
(* slots exceed it aborts before the final reduction.                      *)
C8_FinalReductionFits ==
    \A k \in LogIndices :
        IsInvokeOf(k, "reduction_hw") /\ log[k].final
            => PartialSlotsBytes(layers[log[k].layer],
                       ConvolutionDivideWork(layers, log[k].layer).num_iterations)
                   <= SPAD_SIZE

IsIpCall(k) == log[k].op = "call" /\ log[k].fn = "inner_product_layer"

IsIpReturn(k) == log[k].op = "return" /\ log[k].fn = "inner_product_layer"

(* The events of the inner_product_layer call logged at i, its return included *)
IpSegment(i) ==
    {k \in (i + 1)..Len(log) : \A j \in (i + 1)..(k - 1) : ~IsIpReturn(j)}

IsTransfer(k, op, what) == log[k].op = op /\ log[k].what = what

Flag(b) == IF b THEN 1 ELSE 0

(* The transfers of the call at i are as many as the flags of its layer say *)
IpCallTransfers(i) ==
    LET seg == IpSegment(i)
        ly == layers[log[i].layer]
        invokes == {k \in seg : IsInvokeOf(k, "inner_product_layer_hw")}
        transfers == {k \in seg : log[k].op \in {"dmaLoad", "dmaStore"}}
    IN  /\ \E k \in seg : IsIpReturn(k)
        /\ Cardinality(invokes) = 1
        /\ \A k \in transfers : \A v \in invokes : v < k
        /\ Cardinality({k \in seg : IsTransfer(k, "dmaLoad", "weights")}) = 1
        /\ Cardinality({k \in seg : IsTransfer(k, "dmaLoad", "activations")})
               = Flag(ly.needs_input_dma_load)
        /\ Cardinality({k \in seg : IsTransfer(k, "dmaStore", "result")})
               = Flag(ly.needs_output_dma_store)
        /\ Cardinality(transfers)
               = 1 + Flag(ly.needs_input_dma_load) + Flag(ly.needs_output_dma_store)

(* C9: each inner-product layer call makes exactly one accelerator         *)
(* invocation, and in it the weights are loaded always, the activations    *)
(* if and only if needs_input_dma_load is set, and the result is stored    *)
(* if and only if needs_output_dma_store is set.                           *)
C9_InnerProductTransfers ==
    \A i \in LogIndices : IsIpCall(i) => IpCallTransfers(i)

(* C9 witness: a finished run with an inner-product call that loaded its   *)
(* activations and stored nothing, and one that loaded none and stored.    *)
C9_Witness ==
    /\ pc = "done"
    /\ \E i, j \in LogIndices :
          /\ IsIpCall(i) /\ IsIpCall(j)
          /\ layers[log[i].layer].needs_input_dma_load
          /\ ~layers[log[i].layer].needs_output_dma_store
          /\ ~layers[log[j].layer].needs_input_dma_load
          /\ layers[log[j].layer].needs_output_dma_store

IpInvokes == {k \in LogIndices : IsInvokeOf(k, "inner_product_layer_hw")}

(* a and b are successive inner-product invocations *)
Successive(a, b) == a < b /\ \A k \in IpInvokes : ~(a < k /\ k < b)

(* The results of successive inner-product calls went to opposite scratch  *)
(* buffers, and the alternation state names the latest one.                *)
ResultsAlternate ==
    /\ \A a, b \in IpInvokes :
          Successive(a, b) =>
              /\ log[a].local_result # log[b].local_result
              /\ {log[a].local_result, log[b].local_result} = {"spad0", "spad1"}
    /\ IpInvokes = {} => current_result_loc = "NULL"
    /\ \A a \in IpInvokes :
          (\A k \in IpInvokes : k <= a) => current_result_loc = log[a].local_result

(* C10: the scratch buffer that receives the result of an inner-product    *)
(* call is the opposite of the one of the previous inner-product call,     *)
(* whatever convolution or pooling calls lie between: the alternation      *)
(* state starts unset, flips on every inner-product call and is changed by *)
(* nothing else.                                                           *)
C10_Alternation ==
    /\ current_result_loc = "NULL"
    /\ []ResultsAlternate
    /\ [][/\ InnerProductLayer => current_result_loc' # current_result_loc
          /\ current_result_loc' # current_result_loc => InnerProductLayer]_vars

(* C10 witness: a finished run with two inner-product calls and a          *)
(* convolution or pooling call between them.                               *)
C10_Witness ==
    /\ pc = "done"
    /\ \E a, b \in IpInvokes :
          /\ Successive(a, b)
          /\ \E k \in LogIndices :
                /\ a < k /\ k < b
                /\ log[k].op = "call"
                /\ log[k].fn \in {"convolution_layer", "pooling_layer"}

IsKernelTransfer(k) ==
    /\ log[k].op \in {"dmaLoad", "dmaStore"}
    /\ log[k].what \in {"weights", "activations", "result", "reduced"}

(* The logical name a kernel knows the host array of a transfer by *)
LogicalName(k) ==
    IF log[k].what = "weights" THEN "host_weights"
    ELSE IF log[k].what = "activations" THEN "host_activations"
    ELSE "host_result"

IsMapOf(j, name) == log[j].op = "map" /\ log[j].name = name

(* The map of name in effect at event k is the one logged at j *)
MapInEffect(j, k, name) ==
    /\ j < k
    /\ IsMapOf(j, name)
    /\ \A i \in (j + 1)..(k - 1) : ~IsMapOf(i, name)

(* C11: every transfer made inside an invoked kernel touches a host array  *)
(* that was mapped earlier in the run, and the mapping in effect for its   *)
(* logical name at that moment refers to that same host array.             *)
C11_TransfersMapped ==
    \A k \in LogIndices :
        IsKernelTransfer(k) =>
            \E j \in LogIndices :
                /\ MapInEffect(j, k, LogicalName(k))
                /\ log[j].array = log[k].array

(* The transfers of weights and results are of the array mapped last *)
WeightAndResultTransfersMapped ==
    \A k \in LogIndices :
        IsKernelTransfer(k) /\ log[k].what # "activations" =>
            \E j \in LogIndices :
                /\ MapInEffect(j, k, LogicalName(k))
                /\ log[j].array = log[k].array

ConfigurationErrors == {"umem", "tiled", "final_reduction", "pooling"}

IsInvoke(k) == log[k].op = "invoke"

(* The kernel invocations of layer lnum so far *)
InvokesOfLayer(lnum) == {k \in LogIndices : IsInvoke(k) /\ log[k].layer = lnum}

(* The events of layer lnum after its call that are not kernel invocations *)
AssembliesOfLayer(lnum) == {k \in LogIndices : log[k].op = "memcpy" /\ log[k].layer = lnum}

(* C12 as stated: every configuration error of a layer is raised before    *)
(* any compute or reduction kernel of that layer has been invoked.         *)
C12_AsStated ==
    pc = "aborted" /\ err \in ConfigurationErrors => InvokesOfLayer(l) = {}

(* The invocations before the final-reduction error: the compute and the   *)
(* reduction of every iteration of the first (image, kernel) pair.          *)
FirstPairInvoked ==
    /\ \A k \in InvokesOfLayer(l) :
          /\ log[k].img = 0 /\ log[k].kern = 0
          /\ log[k].kernel = "reduction_hw" => ~log[k].final
    /\ \A it \in 0..(conv_cfgs.num_iterations - 1) :
          \A kernel \in {"convolution_layer_hw", "reduction_hw"} :
              Cardinality({k \in InvokesOfLayer(l) :
                              log[k].kernel = kernel /\ log[k].iter = it}) = 1
    /\ Cardinality(InvokesOfLayer(l)) = 2 * conv_cfgs.num_iterations
    /\ AssembliesOfLayer(l) = {}

ErrorsRaisedInTime ==
    pc = "aborted" /\ err \in ConfigurationErrors =>
        IF err = "final_reduction" THEN FirstPairInvoked ELSE InvokesOfLayer(l) = {}

(* C12: an oversized input, a layer that needs spatial tiling and an       *)
(* unsupported pooling kind are raised before any kernel of the layer is   *)
(* invoked; the error of more than one final-reduction round is raised     *)
(* after the compute and reduction kernels of all iterations of the first  *)
(* (image, kernel) pair ran and before any output is assembled; every      *)
(* error aborts the run and nothing happens afterwards.                    *)
C12_ErrorsAbort ==
    /\ []ErrorsRaisedInTime
    /\ [][pc # "aborted"]_vars

(* C12 witness: the second layer of a network aborted on the final         *)
(* reduction after its kernels ran.                                        *)
C12_Witness ==
    /\ pc = "aborted"
    /\ err = "final_reduction"
    /\ l = 1
    /\ InvokesOfLayer(l) # {}

(* A layer descriptor without its two DMA-requirement flags *)
WithoutDmaFlags(ly) ==
    [ly EXCEPT !.needs_input_dma_load = FALSE, !.needs_output_dma_store = FALSE]

WithoutFlags(ly) == [WithoutDmaFlags(ly) EXCEPT !.result_in_temp = FALSE]

LayerIndices == 0..(depth - 1)

(* C13 as stated: no step of the forward pass changes any field of a layer *)
(* descriptor other than the two DMA-requirement flags.                    *)
C13_AsStated ==
    [][\A i \in LayerIndices : WithoutDmaFlags(layers'[i]) = WithoutDmaFlags(layers[i])]_vars

(* C13: the only fields of a layer descriptor a step changes are the two   *)
(* DMA-requirement flags, written by set_dma_requirements, and the         *)
(* result_in_temp flag of the last layer, written by nnet_fwd after the    *)
(* loop; deriving a partial layer leaves the layer descriptor unchanged.   *)
C13_LayersReadOnly ==
    [][/\ \A i \in LayerIndices : WithoutFlags(layers'[i]) = WithoutFlags(layers[i])
       /\ \A i \in LayerIndices :
             WithoutDmaFlags(layers'[i]) # WithoutDmaFlags(layers[i]) =>
                 /\ pc = "loop" /\ l >= depth /\ i = depth - 1
                 /\ layers'[i].result_in_temp = (result_loc = "result")
       /\ \A i \in LayerIndices :
             \/ layers'[i].needs_input_dma_load # layers[i].needs_input_dma_load
             \/ layers'[i].needs_output_dma_store # layers[i].needs_output_dma_store
             => pc = "set_dma" /\ i = layer_num
       /\ conv'.partial_layer # conv.partial_layer => layers' = layers]_vars

(* C13 witness: a finished run in which a convolution layer ran on a       *)
(* partial layer of fewer channels and result_in_temp was set.             *)
C13_Witness ==
    /\ pc = "done"
    /\ layers[depth - 1].result_in_temp
    /\ \E k \in LogIndices :
          /\ IsInvokeOf(k, "convolution_layer_hw")
          /\ log[k].partial_layer.inputs.height < layers[log[k].layer].inputs.height

LocalBuffers == {"umem", "spad0", "spad1"}

IsMallocOf(k, b) == log[k].op = "malloc" /\ log[k].buf = b

IsFreeOf(k, b) == log[k].op = "free" /\ log[k].buf = b

IsLayerCall(k) == log[k].op = "call"

IsSetDma(k) == log[k].op = "host" /\ log[k].fn = "set_dma_requirements"

(* A map, a transfer or a kernel invocation *)
IsAcceleratorEvent(k) == log[k].op \in {"map", "dmaLoad", "dmaStore", "invoke"}

(* What holds of the run so far: the buffers were allocated first and once, *)
(* set_dma_requirements ran once before any layer, the layers called so    *)
(* far are 0, 1, ... in this order, and nothing touches the accelerator    *)
(* before the allocation or after a release.                               *)
RunInOrder ==
    /\ \A b \in LocalBuffers :
          /\ Cardinality({k \in LogIndices : IsMallocOf(k, b)}) = 1
          /\ Cardinality({k \in LogIndices : IsFreeOf(k, b)}) <= 1
          /\ \A k \in LogIndices :
                IsAcceleratorEvent(k) \/ IsLayerCall(k) \/ IsSetDma(k) =>
                    /\ \E j \in 1..(k - 1) : IsMallocOf(j, b)
                    /\ \A j \in 1..(k - 1) : ~IsFreeOf(j, b)
    /\ Cardinality({k \in LogIndices : IsSetDma(k)}) = 1
    /\ \A k \in LogIndices : IsLayerCall(k) =>
          /\ \E j \in 1..(k - 1) : IsSetDma(j)
          /\ log[k].layer = Cardinality({j \in 1..(k - 1) : IsLayerCall(j)})
    /\ pc \in {"map_activations", "loop"} => layer_num = depth

(* What holds of a finished run: every buffer was released, and every      *)
(* layer was called.                                                       *)
RunComplete ==
    /\ \A b \in LocalBuffers : Cardinality({k \in LogIndices : IsFreeOf(k, b)}) = 1
    /\ Cardinality({k \in LogIndices : IsLayerCall(k)}) = depth
    /\ \A i \in LayerIndices : \E k \in LogIndices : IsLayerCall(k) /\ log[k].layer = i

(* C14: in one forward-pass run the three accelerator-local buffers are    *)
(* each allocated exactly once at the start and freed exactly once at the  *)
(* end, set_dma_requirements runs exactly once and before the first        *)
(* layer, the layers are run exactly once each in increasing order, and    *)
(* every map, transfer and invocation lies between the allocation and the  *)
(* release.                                                                *)
C14_RunLifecycle ==
    /\ pc # "nnet_fwd" => RunInOrder
    /\ pc = "done" => RunComplete

(* C14 witness: a finished run of a network of MaxDepth layers with        *)
(* kernel invocations.                                                     *)
C14_Witness ==
    /\ pc = "done"
    /\ depth = MaxDepth
    /\ \E k \in LogIndices : IsInvoke(k)
    /\ \E k \in LogIndices : IsFreeOf(k, "spad1")

IsLayerReturn(k) == log[k].op = "return"

(* The call event of the layer whose return is logged at k *)
CallOfReturn(k) == CHOOSE j \in 1..(k - 1) : IsLayerCall(j) /\ log[j].layer = log[k].layer

HostBuffers == {"activations", "result"}

(* C15 as stated: the result location every layer call returns is the      *)
(* other host buffer than the one that held its input activations.         *)
C15_AsStated ==
    \A k \in LogIndices :
        IsLayerReturn(k) => log[k].ret # log[CallOfReturn(k)].activations

IsPaddedConvolution(ly) == ly.type = "CONV" /\ ly.c_padding > 0

(* The layer calls pass the two host buffers, the live one as activations, *)
(* and return the one the output went to.                                  *)
ReturnsOutputBuffer(k) ==
    LET c == log[CallOfReturn(k)]
        ly == layers[log[k].layer]
        before == {j \in 1..(k - 1) : IsLayerReturn(j)}
    IN  /\ {c.activations, c.result} = HostBuffers
        /\ c.activations = IF before = {} THEN "activations"
                           ELSE log[CHOOSE j \in before : \A i \in before : i <= j].ret
        /\ log[k].ret = IF IsPaddedConvolution(ly) THEN c.activations ELSE c.result
        /\ k = Len(log) /\ (ly.type # "FC" \/ ly.needs_output_dma_store)
               => host[log[k].ret].gen = log[k].layer + 1

(* C15: every layer call gets the buffer the previous call returned as its *)
(* activations and the other host buffer as its result; it returns the     *)
(* result buffer, except a convolution layer with c_padding > 0, which     *)
(* zero-pads into the result buffer, writes its output over its input and  *)
(* returns the buffer that held its input activations.                     *)
C15_HostPingPong ==
    \A k \in LogIndices : IsLayerReturn(k) => ReturnsOutputBuffer(k)

(* C15 witness: a finished run of two layers in which a zero-padding       *)
(* convolution layer returned its activations buffer.                      *)
C15_Witness ==
    /\ pc = "done"
    /\ depth = ShortDepth
    /\ \E k \in LogIndices :
          /\ IsLayerReturn(k)
          /\ IsPaddedConvolution(layers[log[k].layer])
          /\ log[k].ret = log[CallOfReturn(k)].activations

IsPoolingCall(k) == log[k].op = "call" /\ log[k].fn = "pooling_layer"

(* The call at k ran the software pooling and returned its result buffer *)
PooledInSoftware(k) ==
    /\ k + 2 <= Len(log)
    /\ log[k + 1] = EvHost("max_pooling", log[k].layer)
    /\ log[k + 2] = EvReturn("pooling_layer", log[k].layer, log[k].result)

(* The call at k raised the configuration error and nothing followed *)
PoolingRejected(k) ==
    /\ k = Len(log)
    /\ pc = "aborted"
    /\ err = "pooling"
    /\ l = log[k].layer
    /\ host[log[k].result].gen # log[k].layer + 1

(* C16: a pooling layer of a kind other than max raises a configuration    *)
(* error and produces no result; a max pooling layer runs the software     *)
(* pooling and returns the result buffer it was given.                     *)
C16_Pooling ==
    /\ \A k \in LogIndices :
          IsPoolingCall(k) =>
              IF layers[log[k].layer].pool = "MAX"
              THEN PooledInSoftware(k) ELSE PoolingRejected(k)
    /\ pc = "aborted" /\ err = "pooling"
          => IsPoolingCall(Len(log)) /\ layers[l].pool # "MAX"

(* C16 witness: a max pooling layer returned its result buffer and the     *)
(* pooling layer after it, of another kind, ended the run.                 *)
C16_Witness ==
    /\ pc = "aborted"
    /\ err = "pooling"
    /\ l = 1
    /\ layers[0].type = "POOLING"
    /\ \E k \in LogIndices : IsPoolingCall(k) /\ PooledInSoftware(k)

(* The final reduction round is about to be invoked *)
FinalReductionInvoked == FinalReductionDue /\ ResultIter(layers[l], conv_cfgs.num_iterations) = 1

(* The partial slot of iteration it in temp_result *)
PartialSlot(it) == Read(conv.temp_result, it * Result2dSize(layers[l]))

(* C17: when the final reduction round is invoked for an (image, kernel)   *)
(* pair, the buffer it reduces holds the already-reduced result of every   *)
(* iteration of the pair, one channel per iteration, and it reduces as     *)
(* many channels as there were iterations.                                 *)
C17_FinalReductionInput ==
    FinalReductionInvoked =>
        /\ FinalPartialLayer(layers[l], conv_cfgs.num_iterations).inputs.height
               = conv_cfgs.num_iterations
        /\ \A it \in 0..(conv_cfgs.num_iterations - 1) :
              Read(dev["spad1"], it) = PartialSlot(it)

(* The final reduction is asked for as many channels as there were iterations *)
FinalReductionChannelCount ==
    FinalReductionInvoked =>
        FinalPartialLayer(layers[l], conv_cfgs.num_iterations).inputs.height
            = conv_cfgs.num_iterations

(* A reduction of the running convolution layer has just been made *)
JustReduced ==
    \/ pc = "conv_loop" /\ conv.iter > 0
    \/ pc = "conv_assemble"

LatestSlot == Read(conv.temp_result, conv.result_loc - Result2dSize(layers[l]))

(* C18 as stated: in the convolution path the unified buffer holds the     *)
(* activation slice of the current iteration and nothing else is written   *)
(* into it, and the scratch buffer that does not hold the unreduced output *)
(* holds the reduced result.                                               *)
C18_AsStated ==
    ConvolutionRunning /\ JustReduced =>
        /\ Read(dev["umem"], 0)
               = One(ActAtom(l, conv.img, conv.start_chan - conv.partial_layer.inputs.height))
        /\ Read(dev["spad0"], 0) = LatestSlot

(* The buffers every kernel invocation of the convolution path is given *)
FixedKernelArguments ==
    \A k \in LogIndices :
        /\ IsInvokeOf(k, "convolution_layer_hw") =>
              /\ log[k].local_activations = "umem"
              /\ log[k].local_weights = "spad0"
              /\ log[k].result = "spad1"
        /\ IsInvokeOf(k, "reduction_hw") =>
              /\ log[k].unreduced_activations = "spad1"
              /\ log[k].local_result = "umem"

(* After the compute kernel: spad0 holds the weight slice, spad1 the       *)
(* unreduced output, umem the activation slice if it was loaded.           *)
RolesAfterCompute ==
    pc = "conv_reduce" =>
        \A j \in 0..(conv.partial_layer.inputs.height - 1) :
            /\ Read(dev["spad0"], j) = One(WgtAtom(l, conv.kern, conv.start_chan + j))
            /\ Read(dev["spad1"], j) = ConvOf(Read(dev["umem"], j), Read(dev["spad0"], j), l)
            /\ layers[l].needs_input_dma_load =>
                  Read(dev["umem"], j)
                      = One(ActAtom(host[conv.host_activations].gen, conv.img,
                                    conv.start_chan + j))

(* After a reduction: umem holds the reduced result, the sum of the        *)
(* channels of spad1, in place of the start of the activation slice, and   *)
(* spad0 still holds the weights.                                          *)
RolesAfterReduction ==
    JustReduced /\ pc \in {"conv_loop", "conv_assemble"} =>
        /\ Read(dev["umem"], 0) = LatestSlot
        /\ pc = "conv_loop" =>
              Read(dev["umem"], 0)
                  = ReductionSmiv(dev["spad1"], conv.partial_layer.inputs.height,
                                  SpadChannels(layers[l]), fill)
        /\ Read(dev["spad0"], 0)
               = One(WgtAtom(l, conv.kern,
                             conv.start_chan - conv.partial_layer.inputs.height))

(* C18: in every invocation of the convolution path the unified buffer is  *)
(* the local activations of the compute kernel and the local result of     *)
(* the reduction, which overwrites the start of the activation slice;      *)
(* spad0 holds the weight slice and spad1 the unreduced compute output.    *)
C18_BufferRoles ==
    /\ FixedKernelArguments
    /\ RolesAfterCompute
    /\ RolesAfterReduction

(* C18 witness: in a convolution layer that loads its input, after the     *)
(* reduction of a later iteration of a later kernel.                       *)
C18_Witness ==
    /\ ConvolutionRunning
    /\ pc = "conv_loop"
    /\ conv.iter > 1
    /\ conv.kern > 0
    /\ Read(dev["umem"], 0) = LatestSlot

(* Layer l is about to be run without an input transfer, after a layer    *)
(* that left its output on the accelerator.                                *)
RunsOnResidentInput ==
    /\ l > 0
    /\ l < depth
    /\ ~layers[l].needs_input_dma_load

(* The output the inner-product layer before layer l left on the accelerator *)
ResidentOutput == One(FcOutAtom(l - 1))

(* The local activations inner_product_layer will pass for layer l *)
NextLocalActivations ==
    IF NextResultLoc(current_result_loc) = "spad0" THEN "spad1" ELSE "spad0"

(* An inner-product layer without input transfer finds the output of the   *)
(* layer before it in its local activations.                               *)
InnerProductResidentInput ==
    pc = "loop" /\ RunsOnResidentInput /\ layers[l].type = "FC"
        => Read(dev[NextLocalActivations], 0) = ResidentOutput

(* C19: for every layer i > 0 run without an input transfer, when its      *)
(* compute kernel is invoked the accelerator-local buffer passed to it as  *)
(* activations holds the output layer i-1 left on the accelerator.         *)
C19_ResidentInput ==
    /\ InnerProductResidentInput
    /\ pc = "conv_loop" /\ conv.iter < conv_cfgs.num_iterations /\ RunsOnResidentInput
          => Read(dev["umem"], 0) = ResidentOutput

(* The compute invocations of layer lnum *)
ComputesOfLayer(lnum) ==
    {k \in LogIndices : IsInvokeOf(k, "convolution_layer_hw") /\ log[k].layer = lnum}

(* The iterations and the kernels of layer lnum *)
IterationsOf(lnum) == ConvolutionDivideWork(layers, lnum).num_iterations

KernelsOf(lnum) == layers[lnum].outputs.height

Triple(k) == <<log[k].img, log[k].kern, log[k].iter>>

(* The triple processed after t in layer lnum *)
NextTriple(t, lnum) ==
    IF t[3] + 1 < IterationsOf(lnum) THEN <<t[1], t[2], t[3] + 1>>
    ELSE IF t[2] + 1 < KernelsOf(lnum) THEN <<t[1], t[2] + 1, 0>>
    ELSE <<t[1] + 1, 0, 0>>

(* The events of layer lnum after its compute invocation at a and before   *)
(* b: the reduction of the iteration and, after the last iteration of a    *)
(* pair, its final reduction, if the plan has several iterations, and the  *)
(* assembly of its output.                                                 *)
IterationCompleted(a, b, lnum) ==
    LET between == {k \in (a + 1)..(b - 1) :
                        log[k].op \in {"invoke", "memcpy"} /\ log[k].layer = lnum}
        pair_ends == log[a].iter + 1 = IterationsOf(lnum)
        final == pair_ends /\ IterationsOf(lnum) > 1
        reduced == {k \in between : IsInvokeOf(k, "reduction_hw") /\ ~log[k].final
                                    /\ Triple(k) = Triple(a)}
        finals == {k \in between : IsInvokeOf(k, "reduction_hw") /\ log[k].final
                                   /\ log[k].img = log[a].img /\ log[k].kern = log[a].kern}
        copies == {k \in between : log[k].op = "memcpy"
                                   /\ log[k].img = log[a].img /\ log[k].kern = log[a].kern}
    IN  /\ Cardinality(reduced) = 1
        /\ Cardinality(finals) = (IF final THEN 1 ELSE 0)
        /\ Cardinality(copies) = (IF pair_ends THEN 1 ELSE 0)
        /\ between = reduced \cup finals \cup copies
        /\ \A r \in reduced : \A f \in finals : \A c \in copies : r < f /\ f < c

(* The compute invocations of layer lnum so far go through the triples in  *)
(* lexicographic order from <<0, 0, 0>> on, each iteration completed       *)
(* before the next invocation.                                             *)
TriplesInOrder(lnum) ==
    LET cs == ComputesOfLayer(lnum)
    IN  \A b \in cs :
            LET earlier == {a \in cs : a < b}
            IN  IF earlier = {} THEN Triple(b) = <<0, 0, 0>>
                ELSE LET a == CHOOSE a \in earlier : \A x \in earlier : x <= a
                     IN  /\ Triple(b) = NextTriple(Triple(a), lnum)
                         /\ IterationCompleted(a, b, lnum)

(* The convolution layer lnum has returned *)
HasReturned(lnum) ==
    \E k \in LogIndices : IsLayerReturn(k) /\ log[k].layer = lnum

(* Every triple of the returned layer lnum was processed, once *)
EveryTripleOnce(lnum) ==
    /\ \A t \in (0..(NUM_TEST_CASES - 1)) \X (0..(KernelsOf(lnum) - 1))
                    \X (0..(IterationsOf(lnum) - 1)) :
          Cardinality({k \in ComputesOfLayer(lnum) : Triple(k) = t}) = 1
    /\ Cardinality(ComputesOfLayer(lnum))
           = NUM_TEST_CASES * KernelsOf(lnum) * IterationsOf(lnum)
    /\ \E a \in ComputesOfLayer(lnum) :
          /\ \A x \in ComputesOfLayer(lnum) : x <= a
          /\ IterationCompleted(a, Len(log) + 1, lnum)

(* C20: within a convolution layer the (image, kernel, iteration) triples  *)
(* are processed in lexicographic order, images outermost and iterations   *)
(* innermost, each exactly once, and all iterations and the final          *)
(* reduction of a pair complete before any invocation for the next pair.   *)
C20_TripleOrder ==
    \A i \in LayerIndices :
        layers[i].type = "CONV" =>
            /\ TriplesInOrder(i)
            /\ HasReturned(i) => EveryTripleOnce(i)

(* C20 witness: a convolution layer of several kernels and several         *)
(* iterations has returned.                                                *)
C20_Witness ==
    \E i \in LayerIndices :
        /\ layers[i].type = "CONV"
        /\ HasReturned(i)
        /\ KernelsOf(i) > 1
        /\ IterationsOf(i) > 1

Invokes == {k \in LogIndices : IsInvoke(k)}

(* The invocation after the one at k, if there is one *)
HasNextInvoke(k) == \E j \in Invokes : j > k

NextInvoke(k) == CHOOSE j \in Invokes : j > k /\ \A i \in Invokes : i > k => j <= i

(* The floats of temp_result of layer lnum (smiv.c:259-261) *)
TempResultSize(lnum) == Result2dSize(layers[lnum]) * IterationsOf(lnum)

(* The invocation at r is the reduction of the iteration computed at k,    *)
(* into the slot of that iteration.                                        *)
ReducesIntoOwnSlot(k, r) ==
    /\ IsInvokeOf(r, "reduction_hw")
    /\ ~log[r].final
    /\ log[r].layer = log[k].layer
    /\ Triple(r) = Triple(k)
    /\ log[r].off = log[k].iter * Result2dSize(layers[log[k].layer])
    /\ log[r].off + Result2dSize(layers[log[k].layer]) <= TempResultSize(log[k].layer)

(* The invocations of the pair assembled at event c: what lies between the *)
(* assembly before it in the same layer and c.                             *)
InvokesOfAssembly(c) ==
    LET lnum == log[c].layer
        before == {j \in 1..(c - 1) : log[j].op = "memcpy" /\ log[j].layer = lnum}
        from == IF before = {} THEN 0 ELSE CHOOSE j \in before : \A i \in before : i <= j
    IN  {k \in (from + 1)..(c - 1) : IsInvoke(k) /\ log[k].layer = lnum}

(* The pair assembled at c ran its iterations in plan order and then the   *)
(* final reduction, if the plan has several iterations.                    *)
PairSequence(c) ==
    LET lnum == log[c].layer
        n == IterationsOf(lnum)
        inv == InvokesOfAssembly(c)
        computes == {k \in inv : log[k].kernel = "convolution_layer_hw"}
        finals == {k \in inv : log[k].kernel = "reduction_hw" /\ log[k].final}
    IN  /\ \A k \in inv : log[k].img = log[c].img /\ log[k].kern = log[c].kern
        /\ Cardinality(computes) = n
        /\ \A a, b \in computes : a < b => log[a].iter < log[b].iter
        /\ Cardinality(finals) = (IF n > 1 THEN 1 ELSE 0)
        /\ \A f \in finals : \A k \in inv : k <= f
        /\ Cardinality(inv) = 2 * n + Cardinality(finals)

(* C21: for each (image, kernel) pair of a convolution layer, every plan   *)
(* iteration in plan order makes one compute invocation immediately        *)
(* followed by one reduction invocation into the iteration's own slot of   *)
(* temp_result, inside the buffer; then comes exactly one final reduction  *)
(* if the plan has more than one iteration and none otherwise; then the    *)
(* output assembly.                                                        *)
C21_PairSequence ==
    /\ \A k \in LogIndices :
          IsInvokeOf(k, "convolution_layer_hw") /\ HasNextInvoke(k)
              => ReducesIntoOwnSlot(k, NextInvoke(k))
    /\ \A r \in LogIndices :
          IsInvokeOf(r, "reduction_hw") /\ ~log[r].final =>
              \E k \in 1..(r - 1) :
                  IsInvokeOf(k, "convolution_layer_hw") /\ NextInvoke(k) = r
    /\ \A c \in LogIndices : log[c].op = "memcpy" => PairSequence(c)

(* C21 witness: a convolution layer of one iteration and one of several    *)
(* iterations have both returned.                                          *)
C21_Witness ==
    \E i, j \in LayerIndices :
        /\ layers[i].type = "CONV" /\ layers[j].type = "CONV"
        /\ HasReturned(i) /\ HasReturned(j)
        /\ IterationsOf(i) = 1
        /\ IterationsOf(j) > 1

(* The plan of the convolution layer lnum *)
PlanOf(lnum) == ConvolutionDivideWork(layers, lnum)

(* The invocation at k is a compute or a per-iteration reduction of a      *)
(* convolution layer.                                                      *)
IsIterationInvoke(k) ==
    \/ IsInvokeOf(k, "convolution_layer_hw")
    \/ IsInvokeOf(k, "reduction_hw") /\ ~log[k].final

SameButResultInTemp(a, b) ==
    [a EXCEPT !.result_in_temp = FALSE] = [b EXCEPT !.result_in_temp = FALSE]

(* The partial layer of the invocation at k has the channel count of its   *)
(* iteration in its inputs, weights and outputs, the activation of the     *)
(* layer if the plan has one iteration and none otherwise, and is the      *)
(* layer descriptor in everything else.                                    *)
PartialLayerOfIteration(k) ==
    LET ly == layers[log[k].layer]
        n == PlanOf(log[k].layer).num_iterations
        h == PlanOf(log[k].layer).iteration[log[k].iter].height
        p == log[k].partial_layer
    IN  /\ p.inputs.height = h
        /\ p.weights.height = h
        /\ p.outputs.height = h
        /\ p.activation = IF n = 1 THEN ly.activation ELSE "NONE"
        /\ n > 1 => p.activation = "NONE"
        /\ SameButResultInTemp(
               [p EXCEPT !.inputs.height = ly.inputs.height,
                         !.weights.height = ly.weights.height,
                         !.outputs.height = ly.outputs.height,
                         !.activation = ly.activation],
               ly)

(* C22: the partial layer passed to the compute and the reduction kernel   *)
(* of an iteration has its input, weight and output channel counts         *)
(* replaced by the channel count of the iteration; its activation is NONE  *)
(* when the plan has more than one iteration and the activation of the     *)
(* layer when the plan has exactly one.                                    *)
C22_PartialLayer ==
    \A k \in LogIndices : IsIterationInvoke(k) => PartialLayerOfIteration(k)

(* C22 witness: one invocation whose partial layer lost the activation of  *)
(* its layer, and one whose partial layer kept it.                         *)
C22_Witness ==
    \E a, b \in LogIndices :
        /\ IsIterationInvoke(a) /\ IsIterationInvoke(b)
        /\ layers[log[a].layer].activation = "RELU"
        /\ log[a].partial_layer.activation = "NONE"
        /\ log[a].partial_layer.inputs.height < layers[log[a].layer].inputs.height
        /\ log[b].partial_layer.activation = "RELU"

(* The first channel after the iterations before iteration it of layer lnum *)
OffsetOfIteration(lnum, it) == SumOfChannels(PlanOf(lnum), it)

(* The channels iteration it of layer lnum covers *)
ChannelRange(lnum, it) ==
    OffsetOfIteration(lnum, it)..(OffsetOfIteration(lnum, it + 1) - 1)

(* The channel ranges of the plan of layer lnum are disjoint and contiguous *)
(* and cover every input channel.                                          *)
RangesPartitionChannels(lnum) ==
    LET n == PlanOf(lnum).num_iterations
    IN  /\ OffsetOfIteration(lnum, 0) = 0
        /\ OffsetOfIteration(lnum, n) = layers[lnum].inputs.height
        /\ \A c \in 0..(layers[lnum].inputs.height - 1) :
              Cardinality({it \in 0..(n - 1) : c \in ChannelRange(lnum, it)}) = 1

(* C23: for each (image, kernel) pair the channel offset starts at 0, the  *)
(* offset passed to iteration k is the sum of the channel counts of the    *)
(* iterations before it, offset plus channel count never exceeds the input *)
(* channels of the layer, and after the last iteration the offset equals   *)
(* them: the channel ranges are disjoint, contiguous and cover every input *)
(* channel once.                                                           *)
C23_ChannelOffsets ==
    /\ \A k \in LogIndices :
          IsInvokeOf(k, "convolution_layer_hw") =>
              /\ log[k].start_chan = OffsetOfIteration(log[k].layer, log[k].iter)
              /\ log[k].iter = 0 => log[k].start_chan = 0
              /\ log[k].start_chan + log[k].partial_layer.inputs.height
                     <= layers[log[k].layer].inputs.height
              /\ RangesPartitionChannels(log[k].layer)
    /\ pc \in {"conv_loop", "conv_reduce"} => conv.start_chan = OffsetOfIteration(l, conv.iter)
    /\ pc = "conv_loop" /\ conv.iter = conv_cfgs.num_iterations
          => conv.start_chan = layers[l].inputs.height
    /\ pc = "conv_assemble" => conv.start_chan = layers[l].inputs.height

(* C23 witness: the third iteration of a plan was invoked at an offset of  *)
(* four channels and covers the last channel.                              *)
C23_Witness ==
    /\ pc = "conv_reduce"
    /\ conv.iter = 2
    /\ conv.start_chan = 4
    /\ conv.start_chan + conv.partial_layer.inputs.height = layers[l].inputs.height

(* The offset, in floats, of the slice of the pair (img, kern) in the      *)
(* output tensor of layer lnum.                                            *)
SliceOffset(lnum, img, kern) ==
    (img * layers[lnum].outputs.height + kern) * Result2dSize(layers[lnum])

Assemblies(lnum) == {c \in LogIndices : log[c].op = "memcpy" /\ log[c].layer = lnum}

(* The pairs of layer lnum *)
PairsOf(lnum) == (0..(NUM_TEST_CASES - 1)) \X (0..(layers[lnum].outputs.height - 1))

(* Every assembly of layer lnum so far wrote the slice of its own pair,    *)
(* and no pair was assembled twice.                                        *)
AssembledAtOwnOffset(lnum) ==
    /\ \A c \in Assemblies(lnum) :
          /\ <<log[c].img, log[c].kern>> \in PairsOf(lnum)
          /\ log[c].off = SliceOffset(lnum, log[c].img, log[c].kern)
    /\ \A c, d \in Assemblies(lnum) :
          c # d => <<log[c].img, log[c].kern>> # <<log[d].img, log[d].kern>>
    /\ \A p, q \in PairsOf(lnum) :
          p # q => SliceOffset(lnum, p[1], p[2]) # SliceOffset(lnum, q[1], q[2])

(* The slices written in the output tensor of the running convolution      *)
(* layer are those of the pairs assembled so far.                          *)
OnlyAssembledSlicesWritten ==
    pc \in {"conv_loop", "conv_reduce", "conv_assemble", "conv_return"}
    /\ Assemblies(l) # {} =>
        /\ host[conv.host_result].gen = l + 1
        /\ DOMAIN host[conv.host_result].slices
               = {log[c].off : c \in Assemblies(l)}

(* The slice just assembled is the output of the last reduction of its pair *)
AssembledAfterLastReduction ==
    Len(log) > 0 /\ log[Len(log)].op = "memcpy" =>
        /\ IsInvokeOf(Len(log) - 2, "reduction_hw")
        /\ log[Len(log) - 2].img = log[Len(log)].img
        /\ log[Len(log) - 2].kern = log[Len(log)].kern
        /\ log[Len(log) - 2].final = (IterationsOf(l) > 1)
        /\ host[log[Len(log)].array].slices[log[Len(log)].off] = Read(dev["umem"], 0)

(* C24: when a convolution layer completes, for every image and every      *)
(* kernel the slice of the output tensor at offset (image x number of      *)
(* kernels + kernel) x slice size has been written exactly once, with the  *)
(* result of the pair taken after its last reduction, and nothing outside  *)
(* these slices has been written.                                          *)
C24_OutputAssembly ==
    /\ \A i \in LayerIndices : layers[i].type = "CONV" => AssembledAtOwnOffset(i)
    /\ OnlyAssembledSlicesWritten
    /\ AssembledAfterLastReduction
    /\ \A i \in LayerIndices :
          layers[i].type = "CONV" /\ HasReturned(i) =>
              \A p \in PairsOf(i) :
                  Cardinality({c \in Assemblies(i) : <<log[c].img, log[c].kern>> = p}) = 1
    /\ pc = "conv_return" =>
          DOMAIN host[conv.host_result].slices
              = {SliceOffset(l, p[1], p[2]) : p \in PairsOf(l)}

(* C24 witness: a convolution layer of several kernels and several         *)
(* iterations is complete and its output tensor is assembled.              *)
C24_Witness ==
    /\ pc = "conv_return"
    /\ layers[l].outputs.height > 1
    /\ conv_cfgs.num_iterations > 1
    /\ Cardinality(DOMAIN host[conv.host_result].slices)
           = NUM_TEST_CASES * layers[l].outputs.height

--------------------------------------------------------------------------
(* The footprints of the plans of the work divider, under SpecPlan *)

(* The partial layers of the plan made for layer 0 *)
PlannedPartialLayers ==
    {PartialLayer(layers[0], conv_cfgs.iteration[it], conv_cfgs.num_iterations) :
        it \in 0..(conv_cfgs.num_iterations - 1)}

(* The bytes of the unreduced output of a partial layer, and of one reduced channel *)
UnreducedBytes(partial_layer) ==
    Result2dSize(partial_layer) * partial_layer.outputs.height * SIZEOF_FLOAT

ReducedBytes(partial_layer) == Result2dSize(partial_layer) * SIZEOF_FLOAT

(* The activations, the unreduced output and the reduced result of every   *)
(* iteration of a plan fit the buffers they are written to.                *)
ActivationsAndOutputsFit ==
    pc = "divided" =>
        \A p \in PlannedPartialLayers :
            /\ ActivationSliceBytes(p) <= UMEM_SIZE
            /\ UnreducedBytes(p) <= SPAD_SIZE
            /\ ReducedBytes(p) <= UMEM_SIZE

(* C25: for every plan convolution_divide_work returns and every iteration *)
(* of it, the weight slice, the activation slice, the unreduced output and *)
(* the reduced result are no larger than the buffer they are written to.   *)
C25_WritesWithinCapacity ==
    pc = "divided" =>
        \A p \in PlannedPartialLayers :
            /\ WeightSliceBytes(p) <= SPAD_SIZE
            /\ ActivationSliceBytes(p) <= UMEM_SIZE
            /\ UnreducedBytes(p) <= SPAD_SIZE
            /\ ReducedBytes(p) <= UMEM_SIZE

--------------------------------------------------------------------------
(* The chain of host buffers through a forward pass *)

(* The log index of the return of layer lnum *)
ReturnOfLayer(lnum) == CHOOSE k \in LogIndices : IsLayerReturn(k) /\ log[k].layer = lnum

(* The buffer layer lnum is given as its input activations *)
InputOfLayer(lnum) == IF lnum = 0 THEN "activations" ELSE log[ReturnOfLayer(lnum - 1)].ret

(* The final transfer-out of nnet_fwd *)
IsOutputStore(k) == log[k].op = "dmaStore" /\ log[k].what = "output"

(* The call at k is given the buffer the layer before returned, and the    *)
(* other host buffer for its result.                                       *)
CallChained(k) ==
    /\ log[k].activations = InputOfLayer(log[k].layer)
    /\ log[k].result \in HostBuffers \ {log[k].activations}

(* The store at k publishes the buffer the last layer returned *)
PublishesLastReturn(k) ==
    /\ \E j \in 1..(k - 1) : IsLayerReturn(j) /\ log[j].layer = depth - 1
    /\ log[k].array = log[ReturnOfLayer(depth - 1)].ret
    /\ log[k].src = log[k].array

(* C26: in a forward pass, layer l is given as its input activations the   *)
(* buffer layer l-1 returned (the initial activations buffer for layer 0)  *)
(* and as its result the other host buffer, and the final transfer-out     *)
(* publishes the buffer the last layer returned.                           *)
C26_BufferChain ==
    /\ \A k \in LogIndices : IsLayerCall(k) => CallChained(k)
    /\ \A k \in LogIndices : IsOutputStore(k) => PublishesLastReturn(k)
    /\ pc = "done" => \E k \in LogIndices : IsOutputStore(k)

(* C26 witness: a finished pass of MaxDepth layers in which a layer was    *)
(* given the result buffer as its input, the last layer was given the      *)
(* activations buffer again, and the output was published from the result  *)
(* buffer.                                                                 *)
C26_Witness ==
    /\ pc = "done"
    /\ depth = MaxDepth
    /\ \E k \in LogIndices : IsLayerCall(k) /\ log[k].activations = "result"
    /\ \E k \in LogIndices :
          IsLayerCall(k) /\ log[k].layer = depth - 1 /\ log[k].activations = "activations"
    /\ \E k \in LogIndices : IsOutputStore(k) /\ log[k].array = "result"

==========================================================================
